---- MODULE Spec2Model ----
(***************************************************************************)
(* A model of the Nanotrons coordinator (src/coordinator.py) and of the    *)
(* socket handlers that drive it (src/web_app.py).                         *)
(*                                                                         *)
(* Every socket handler runs on a flow of its own (a handler thread); a    *)
(* flow executes one coordinator operation at a time, statement by         *)
(* statement, on an explicit call stack.  Calls into the device drivers    *)
(* (motor controller, thermal cycler, tempdeck) are the observable events; *)
(* each flow records the ones the operation it is running has issued.      *)
(*                                                                         *)
(* Spec covers the lid, deck-slot and motion operations; SpecJoy and       *)
(* SpecJoyFair the manual-control loop with its listener thread; SpecTemp  *)
(* the blocking temperature waits.                                         *)
(***************************************************************************)
EXTENDS Integers, Sequences, FiniteSets, TLC

\* ------------------------------------------------------------------ bounds
\* Operations a handler flow may start in one behaviour.
MaxOps == 2
\* Handler invocations, over all flows, explored in one behaviour of the
\* manual-control specifications.
MaxJoyOps == 3

\* ---------------------------------------------------------------- constants
PIPPETE_POSITION_WHEN_MOVING_TC_LID == "5"
POSITION_IN_Z_TO_PLACE_WHEN_GOING_TO_SLOT == 150
AMOUNT_WANTED_DEFAULT == 1000
Devices == {"tc", "ot", "td"}

\* The flows on which socket handlers run.
Threads == {"h1", "h2"}

\* Deck slot identifiers as the callers pass them (strings): the parking
\* slot, the end-of-protocol slot and the four slots next to the thermal cycler.
DeckSlotIds == {"3", "5", "7", "8", "10", "11"}

VARIABLES
    stack,          \* stack[t]: call stack of flow t, <<>> when it is idle
    opsLeft,        \* opsLeft[t]: operations flow t may still start
    cur,            \* cur[t]: the operation flow t started last
    trace,          \* trace[t]: what that operation has issued so far
    tc_lid_flag,    \* ot_control.tc_lid_flag
    stop_joystick,  \* controller.stop_joystick
    pygame_running, \* controller.pygame_running
    listener,       \* listener[l]: state of input-listener thread l
    joy,            \* the controller's collected inputs (deliver_joy)
    round,          \* round[t]: the snapshot flow t dispatched last, and
                    \* the driver methods invoked to completion for it
    stopReq         \* stopReq[t]: stop_joystick_control was called while
                    \* the manual-control session of flow t was active

joyVars == <<stop_joystick, pygame_running, listener, joy, round, stopReq>>

VARIABLES
    feed,           \* the temperatures the sensors report, poll by poll
    phases,         \* phases[t]: the phases the temperature call of t went through
    clean_water,    \* the washing positions (<<>> stands for None)
    wash_water,
    waste_water,
    amount_wanted,
    position,       \* ot_control._position
    connected,      \* connected[d]: device d holds an open port
    heldPositions,  \* the positions ot_control._position has held since the
                    \* last get_current_coordinates call began
    settings,       \* the settings update_setting writes
    components,     \* myLabware: the calibrated components, in order of addition
    done_calibration_flag   \* web_app.done_calibration_flag

pairVars == <<feed, phases>>
washVars == <<clean_water, wash_water, waste_water, amount_wanted, position>>
connVars == <<connected>>
coordVars == <<heldPositions>>
labVars == <<settings, components>>
webVars == <<done_calibration_flag>>
extVars == <<pairVars, washVars, connVars, coordVars, labVars, webVars>>
vars == <<stack, opsLeft, cur, trace, tc_lid_flag, joyVars, extVars>>

\* ------------------------------------------------------------------ helpers
\* The records of the model: the call of a flow [op, arg], a stack frame
\* [proc, pc, arg] and an event [dev, cmd, axes, arg]. The argument is a
\* string, a number, a tuple or a record, depending on the operation. TLC
\* compares two records field by field, in the order in which it first met
\* the field names: arg is named last, so that records of different
\* operations are told apart before their arguments are compared.
RecordFields ==
    [op |-> "call", proc |-> "frame", pc |-> "frame",
     dev |-> "event", cmd |-> "event", axes |-> "event", arg |-> "argument"]

\* float(slot) of go_to_deck_slot, on the identifiers in use.
float(slot) ==
    CASE slot = "3" -> 3
      [] slot = "5" -> 5
      [] slot = "7" -> 7
      [] slot = "8" -> 8
      [] slot = "10" -> 10
      [] slot = "11" -> 11

\* Deck.get_slot_center: the deck is a grid of three columns; the centre is
\* given in grid units (column, row).
get_slot_center(slot) ==
    <<(float(slot) - 1) % 3, (float(slot) - 1) \div 3>>

Frame(proc, arg) == [proc |-> proc, pc |-> "start", arg |-> arg]

Top(t) == stack[t][Len(stack[t])]

AtPc(t, proc, pc) ==
    /\ stack[t] # <<>>
    /\ Top(t).proc = proc
    /\ Top(t).pc = pc

\* The stack with the pc of its top frame set.
WithPc(s, pc) == [s EXCEPT ![Len(s)] = [@ EXCEPT !.pc = pc]]

\* A frame whose pc is "ret" has nothing left to do: it returns as soon as
\* its callee does.
RECURSIVE Unwind(_)
Unwind(s) ==
    IF s # <<>> /\ s[Len(s)].pc = "ret"
    THEN Unwind(SubSeq(s, 1, Len(s) - 1))
    ELSE s

Goto(t, pc) == stack' = [stack EXCEPT ![t] = WithPc(@, pc)]

\* Call f; the caller resumes at pc.
CallFrom(t, pc, f) == stack' = [stack EXCEPT ![t] = Append(WithPc(@, pc), f)]

\* The top frame returns.
Ret(t) == stack' = [stack EXCEPT ![t] = Unwind(SubSeq(@, 1, Len(@) - 1))]

\* An exception nobody catches: the whole operation is abandoned.
Raise(t) == stack' = [stack EXCEPT ![t] = <<>>]

\* Events: dev is the callee ("coord" for coordinator methods, "motor",
\* "tc"), axes the axes a motor directive moves, arg its argument.
Ev(dev, cmd, axes, arg) == [dev |-> dev, cmd |-> cmd, axes |-> axes, arg |-> arg]

Log(t, e) == trace' = [trace EXCEPT ![t] = Append(@, e)]

\* ------------------------------------------------------ manual control
\* One listener thread per joystick_control call that starts one: the k-th
\* call made by flow t.
ListenerIds == Threads \X (0 .. MaxOps - 1)

Inputs(buttons, hats, axes) == [buttons |-> buttons, hats |-> hats, axes |-> axes]

NoInputs == Inputs(<<>>, <<>>, <<>>)

\* What the listener may have collected between two snapshots.
InputSnapshots ==
    {Inputs(<<"A">>, <<"HAT_UP">>, <<"L_STICK_LEFT">>),
     Inputs(<<"LSTICK", "A">>, <<>>, <<>>)}

\* The binding profile: input name -> name of a motor-driver method.  The
\* left stick button has no entry.
controller_profile ==
    [i \in {"A", "RB", "L_STICK_LEFT", "HAT_UP"} |->
        CASE i = "A" -> "Z_axis_Down"
          [] i = "RB" -> "step_size_up"
          [] i = "L_STICK_LEFT" -> "move_left"
          [] i = "HAT_UP" -> "home"]

\* The methods of the motor driver the profile may name.
DriverMethods == {"Z_axis_Down", "step_size_up", "move_left", "home"}

NoRound == [buttons |-> <<>>, hats |-> <<>>, axes |-> <<>>, done |-> <<>>]

\* t1.is_alive()
IsAlive(l) == listener[l] \in {"start_pygame", "listen"}

\* Numbers that Python holds as floats are held in thousandths.
Thousandth == 1000

\* The settings before any update: the refresh interval is
\* REFRESH_COORDINATE_INTERVAL = 0.1, the rest is what the labware and the
\* motor driver start with.
InitialSettings ==
    [coordinate_refresh_rate |-> 100,
     syringe_model |-> "default",
     syringe_default_speed |-> 0,
     xyz_axis_step_size |-> 0,
     xyz_axis_step_speed |-> 0,
     xyz_axis_gearbox |-> <<>>]

\* ---------------------------------------------------------------- start
Init ==
    /\ stack = [t \in Threads |-> <<>>]
    /\ opsLeft = [t \in Threads |-> MaxOps]
    /\ cur = [t \in Threads |-> [op |-> "none", arg |-> <<>>]]
    /\ trace = [t \in Threads |-> <<>>]
    /\ tc_lid_flag = "unknown"
    /\ stop_joystick = FALSE
    /\ pygame_running = FALSE
    /\ listener = [l \in ListenerIds |-> "none"]
    /\ joy = NoInputs
    /\ round = [t \in Threads |-> NoRound]
    /\ stopReq = [t \in Threads |-> FALSE]
    /\ feed = <<>>
    /\ phases = [t \in Threads |-> <<>>]
    /\ clean_water = <<>>
    /\ wash_water = <<>>
    /\ waste_water = <<>>
    /\ amount_wanted = AMOUNT_WANTED_DEFAULT
    /\ position = [X |-> 0, Y |-> 0, Z |-> 0]
    /\ connected = [d \in Devices |-> TRUE]
    /\ heldPositions = {[X |-> 0, Y |-> 0, Z |-> 0]}
    /\ settings = InitialSettings
    /\ components = <<>>
    /\ done_calibration_flag = FALSE

\* A handler flow starts operation op(arg).
Invoke(t, op, arg) ==
    /\ stack[t] = <<>>
    /\ opsLeft[t] > 0
    /\ opsLeft' = [opsLeft EXCEPT ![t] = @ - 1]
    /\ stack' = [stack EXCEPT ![t] = <<Frame(op, arg)>>]
    /\ cur' = [cur EXCEPT ![t] = [op |-> op, arg |-> arg]]
    /\ trace' = [trace EXCEPT ![t] = <<>>]

\* ------------------------------------------------------------ motion
\* ot_control.move_to(location): lift Z, move X and Y, descend to Z.
MoveTo_Lift(t) ==
    /\ AtPc(t, "move_to", "start")
    /\ Log(t, Ev("motor", "lift", {"Z"}, Top(t).arg))
    /\ Goto(t, "translate")
    /\ UNCHANGED <<opsLeft, cur, tc_lid_flag, joyVars>>

MoveTo_Translate(t) ==
    /\ AtPc(t, "move_to", "translate")
    /\ Log(t, Ev("motor", "translate", {"X", "Y"}, Top(t).arg))
    /\ Goto(t, "descend")
    /\ UNCHANGED <<opsLeft, cur, tc_lid_flag, joyVars>>

MoveTo_Descend(t) ==
    /\ AtPc(t, "move_to", "descend")
    /\ Log(t, Ev("motor", "descend", {"Z"}, Top(t).arg))
    /\ Ret(t)
    /\ UNCHANGED <<opsLeft, cur, tc_lid_flag, joyVars>>

\* Fault variant of go_to_position: one direct driver move on all three
\* axes (ot_control.move) instead of move_to.
GoToPosition_Direct(t) ==
    /\ AtPc(t, "go_to_position", "start")
    /\ trace' = [trace EXCEPT ![t] =
                    @ \o <<Ev("coord", "go_to_position", {}, Top(t).arg),
                           Ev("motor", "move", {"X", "Y", "Z"}, Top(t).arg)>>]
    /\ Ret(t)
    /\ UNCHANGED <<opsLeft, cur, tc_lid_flag, joyVars>>

\* go_to_position(location)
GoToPosition(t) ==
    /\ AtPc(t, "go_to_position", "start")
    /\ Log(t, Ev("coord", "go_to_position", {}, Top(t).arg))
    /\ CallFrom(t, "ret", Frame("move_to", Top(t).arg))
    /\ UNCHANGED <<opsLeft, cur, tc_lid_flag, joyVars>>

SlotLocation(slot) ==
    <<get_slot_center(slot)[1], get_slot_center(slot)[2],
      POSITION_IN_Z_TO_PLACE_WHEN_GOING_TO_SLOT>>

\* Fault variant of go_to_deck_slot: slot 3 is taken for a slot next to the
\* thermal cycler as well.
GoToDeckSlot_WrongSlots(t) ==
    /\ AtPc(t, "go_to_deck_slot", "start")
    /\ LET slot == Top(t).arg
           slot_number == float(slot)
           location == SlotLocation(slot)
       IN  IF slot_number \in {3, 7, 8, 10, 11}
           THEN CallFrom(t, "check", Frame("open_lid", <<>>))
           ELSE CallFrom(t, "ret", Frame("go_to_position", location))
    /\ UNCHANGED <<opsLeft, cur, trace, tc_lid_flag, joyVars>>

\* Fault variant of go_to_deck_slot: the parking slot is taken for a slot
\* next to the thermal cycler as well.
GoToDeckSlot_ParkingGated(t) ==
    /\ AtPc(t, "go_to_deck_slot", "start")
    /\ LET slot == Top(t).arg
           slot_number == float(slot)
           location == SlotLocation(slot)
       IN  IF slot_number \in {5, 7, 8, 10, 11}
           THEN CallFrom(t, "check", Frame("open_lid", <<>>))
           ELSE CallFrom(t, "ret", Frame("go_to_position", location))
    /\ UNCHANGED <<opsLeft, cur, trace, tc_lid_flag, joyVars>>

\* go_to_deck_slot(slot), up to its first call
GoToDeckSlot(t) ==
    /\ AtPc(t, "go_to_deck_slot", "start")
    /\ LET slot == Top(t).arg
           slot_number == float(slot)
           location == SlotLocation(slot)
       IN  IF slot_number = 7 \/ slot_number = 8 \/ slot_number = 10 \/ slot_number = 11
           THEN CallFrom(t, "check", Frame("open_lid", <<>>))
           ELSE CallFrom(t, "ret", Frame("go_to_position", location))
    /\ UNCHANGED <<opsLeft, cur, trace, tc_lid_flag, joyVars>>

\* Fault variant of go_to_deck_slot: the move is not gated on the lid flag.
GoToDeckSlot_NoGate(t) ==
    /\ AtPc(t, "go_to_deck_slot", "check")
    /\ CallFrom(t, "ret", Frame("go_to_position", SlotLocation(Top(t).arg)))
    /\ UNCHANGED <<opsLeft, cur, trace, tc_lid_flag, joyVars>>

\* go_to_deck_slot(slot), after open_lid has returned
GoToDeckSlot_Check(t) ==
    /\ AtPc(t, "go_to_deck_slot", "check")
    /\ IF tc_lid_flag = "open"
       THEN CallFrom(t, "ret", Frame("go_to_position", SlotLocation(Top(t).arg)))
       ELSE Ret(t)
    /\ UNCHANGED <<opsLeft, cur, trace, tc_lid_flag, joyVars>>

\* ------------------------------------------------------------ lid
\* asyncio.run(self.tc_control.open()/close()) returns
TcReturns(t) ==
    /\ stack[t] # <<>>
    /\ Top(t).pc \in {"wait_open", "wait_close"}
    /\ LET cmd == IF Top(t).pc = "wait_open" THEN "open" ELSE "close"
       IN  /\ Log(t, Ev("tc", cmd, {}, <<"done">>))
           /\ Goto(t, IF cmd = "open" THEN "set_open" ELSE "set_closed")
    /\ UNCHANGED <<opsLeft, cur, tc_lid_flag, joyVars>>

\* Fault variant of a failing lid command: the flag is written although the
\* command raised.
TcRaises_FlagWritten(t) ==
    /\ stack[t] # <<>>
    /\ Top(t).pc \in {"wait_open", "wait_close"}
    /\ LET cmd == IF Top(t).pc = "wait_open" THEN "open" ELSE "close"
       IN  /\ Log(t, Ev("tc", cmd, {}, <<"failed">>))
           /\ tc_lid_flag' = (IF cmd = "open" THEN "open" ELSE "closed")
    /\ Raise(t)
    /\ UNCHANGED <<opsLeft, cur, joyVars>>

\* asyncio.run(self.tc_control.open()/close()) raises
TcRaises(t) ==
    /\ stack[t] # <<>>
    /\ Top(t).pc \in {"wait_open", "wait_close"}
    /\ LET cmd == IF Top(t).pc = "wait_open" THEN "open" ELSE "close"
       IN  Log(t, Ev("tc", cmd, {}, <<"failed">>))
    /\ Raise(t)
    /\ UNCHANGED <<opsLeft, cur, tc_lid_flag, joyVars>>

\* Fault variant of open_lid: the gantry is parked whatever the lid flag says.
OpenLid_AlwaysPark(t) ==
    /\ AtPc(t, "open_lid", "start")
    /\ CallFrom(t, "tc_open",
                Frame("go_to_deck_slot", PIPPETE_POSITION_WHEN_MOVING_TC_LID))
    /\ UNCHANGED <<opsLeft, cur, trace, tc_lid_flag, joyVars>>

\* open_lid, up to its first call
OpenLid(t) ==
    /\ AtPc(t, "open_lid", "start")
    /\ IF tc_lid_flag # "open"
       THEN /\ CallFrom(t, "tc_open",
                        Frame("go_to_deck_slot", PIPPETE_POSITION_WHEN_MOVING_TC_LID))
            /\ UNCHANGED trace
       ELSE /\ Log(t, Ev("tc", "open", {}, <<"issued">>))
            /\ Goto(t, "wait_open")
    /\ UNCHANGED <<opsLeft, cur, tc_lid_flag, joyVars>>

OpenLid_TcOpen(t) ==
    /\ AtPc(t, "open_lid", "tc_open")
    /\ Log(t, Ev("tc", "open", {}, <<"issued">>))
    /\ Goto(t, "wait_open")
    /\ UNCHANGED <<opsLeft, cur, tc_lid_flag, joyVars>>

OpenLid_SetFlag(t) ==
    /\ AtPc(t, "open_lid", "set_open")
    /\ tc_lid_flag' = "open"
    /\ Ret(t)
    /\ UNCHANGED <<opsLeft, cur, trace, joyVars>>

\* Fault variant of close_lid: the close command is issued where the gantry
\* stands.
CloseLid_NoPark(t) ==
    /\ AtPc(t, "close_lid", "start")
    /\ Goto(t, "tc_close")
    /\ UNCHANGED <<opsLeft, cur, trace, tc_lid_flag, joyVars>>

\* close_lid
CloseLid(t) ==
    /\ AtPc(t, "close_lid", "start")
    /\ CallFrom(t, "tc_close",
                Frame("go_to_deck_slot", PIPPETE_POSITION_WHEN_MOVING_TC_LID))
    /\ UNCHANGED <<opsLeft, cur, trace, tc_lid_flag, joyVars>>

CloseLid_TcClose(t) ==
    /\ AtPc(t, "close_lid", "tc_close")
    /\ Log(t, Ev("tc", "close", {}, <<"issued">>))
    /\ Goto(t, "wait_close")
    /\ UNCHANGED <<opsLeft, cur, tc_lid_flag, joyVars>>

CloseLid_SetFlag(t) ==
    /\ AtPc(t, "close_lid", "set_closed")
    /\ tc_lid_flag' = "closed"
    /\ Ret(t)
    /\ UNCHANGED <<opsLeft, cur, trace, joyVars>>

\* open_close_lid
OpenCloseLid(t) ==
    /\ AtPc(t, "open_close_lid", "start")
    /\ CallFrom(t, "branch",
                Frame("go_to_deck_slot", PIPPETE_POSITION_WHEN_MOVING_TC_LID))
    /\ UNCHANGED <<opsLeft, cur, trace, tc_lid_flag, joyVars>>

\* Fault variant of open_close_lid: the lid is opened whatever the flag says.
OpenCloseLid_AlwaysOpen(t) ==
    /\ AtPc(t, "open_close_lid", "branch")
    /\ Log(t, Ev("tc", "open", {}, <<"issued">>))
    /\ Goto(t, "wait_open")
    /\ UNCHANGED <<opsLeft, cur, tc_lid_flag, joyVars>>

OpenCloseLid_Branch(t) ==
    /\ AtPc(t, "open_close_lid", "branch")
    /\ IF tc_lid_flag = "open"
       THEN /\ Log(t, Ev("tc", "close", {}, <<"issued">>))
            /\ Goto(t, "wait_close")
       ELSE /\ Log(t, Ev("tc", "open", {}, <<"issued">>))
            /\ Goto(t, "wait_open")
    /\ UNCHANGED <<opsLeft, cur, tc_lid_flag, joyVars>>

\* Fault variant of open_close_lid: the two flag values are swapped.
OpenCloseLid_SwappedFlag(t) ==
    /\ stack[t] # <<>>
    /\ Top(t).proc = "open_close_lid"
    /\ Top(t).pc \in {"set_open", "set_closed"}
    /\ tc_lid_flag' = (IF Top(t).pc = "set_closed" THEN "open" ELSE "closed")
    /\ Ret(t)
    /\ UNCHANGED <<opsLeft, cur, trace, joyVars>>

OpenCloseLid_SetFlag(t) ==
    /\ stack[t] # <<>>
    /\ Top(t).proc = "open_close_lid"
    /\ Top(t).pc \in {"set_open", "set_closed"}
    /\ tc_lid_flag' = (IF Top(t).pc = "set_closed" THEN "closed" ELSE "open")
    /\ Ret(t)
    /\ UNCHANGED <<opsLeft, cur, trace, joyVars>>

\* ------------------------------------------------------------ handlers
\* The socket handlers go_to_deck_slot, open_lid, close_lid and the
\* protocol-level open_close_lid.
InvokeLidOp(t) ==
    \/ \E slot \in DeckSlotIds : Invoke(t, "go_to_deck_slot", slot)
    \/ \E op \in {"open_lid", "close_lid", "open_close_lid"} : Invoke(t, op, <<>>)

InvokeLid(t) ==
    /\ InvokeLidOp(t)
    /\ UNCHANGED <<tc_lid_flag, joyVars>>

Next ==
    \E t \in Threads :
        \/ InvokeLid(t) /\ UNCHANGED extVars
        \/ GoToDeckSlot(t) /\ UNCHANGED extVars
        \/ GoToDeckSlot_Check(t) /\ UNCHANGED extVars
        \/ GoToPosition(t) /\ UNCHANGED extVars
        \/ MoveTo_Lift(t) /\ UNCHANGED extVars
        \/ MoveTo_Translate(t) /\ UNCHANGED extVars
        \/ MoveTo_Descend(t) /\ UNCHANGED extVars
        \/ OpenLid(t) /\ UNCHANGED extVars
        \/ OpenLid_TcOpen(t) /\ UNCHANGED extVars
        \/ OpenLid_SetFlag(t) /\ UNCHANGED extVars
        \/ CloseLid(t) /\ UNCHANGED extVars
        \/ CloseLid_TcClose(t) /\ UNCHANGED extVars
        \/ CloseLid_SetFlag(t) /\ UNCHANGED extVars
        \/ OpenCloseLid(t) /\ UNCHANGED extVars
        \/ OpenCloseLid_Branch(t) /\ UNCHANGED extVars
        \/ OpenCloseLid_SetFlag(t) /\ UNCHANGED extVars
        \/ TcReturns(t) /\ UNCHANGED extVars
        \/ TcRaises(t) /\ UNCHANGED extVars

Spec == Init /\ [][Next]_vars

\* A step of flow t inside the lid or deck-slot operation it is running.
DeckFlowStep(t) ==
    \/ GoToDeckSlot(t)
    \/ GoToDeckSlot_Check(t)
    \/ GoToPosition(t)
    \/ MoveTo_Lift(t)
    \/ MoveTo_Translate(t)
    \/ MoveTo_Descend(t)
    \/ OpenLid(t)
    \/ OpenLid_TcOpen(t)
    \/ OpenLid_SetFlag(t)
    \/ CloseLid(t)
    \/ CloseLid_TcClose(t)
    \/ CloseLid_SetFlag(t)
    \/ OpenCloseLid(t)
    \/ OpenCloseLid_Branch(t)
    \/ OpenCloseLid_SetFlag(t)
    \/ TcReturns(t)
    \/ TcRaises(t)

\* The operations called one after the other, as a protocol script calls
\* them.
DeckSeqNext ==
    \E t \in Threads :
        \/ /\ \A u \in Threads : stack[u] = <<>>
           /\ InvokeLid(t)
           /\ UNCHANGED extVars
        \/ GoToDeckSlot(t) /\ UNCHANGED extVars
        \/ GoToDeckSlot_Check(t) /\ UNCHANGED extVars
        \/ GoToPosition(t) /\ UNCHANGED extVars
        \/ MoveTo_Lift(t) /\ UNCHANGED extVars
        \/ MoveTo_Translate(t) /\ UNCHANGED extVars
        \/ MoveTo_Descend(t) /\ UNCHANGED extVars
        \/ OpenLid(t) /\ UNCHANGED extVars
        \/ OpenLid_TcOpen(t) /\ UNCHANGED extVars
        \/ OpenLid_SetFlag(t) /\ UNCHANGED extVars
        \/ CloseLid(t) /\ UNCHANGED extVars
        \/ CloseLid_TcClose(t) /\ UNCHANGED extVars
        \/ CloseLid_SetFlag(t) /\ UNCHANGED extVars
        \/ OpenCloseLid(t) /\ UNCHANGED extVars
        \/ OpenCloseLid_Branch(t) /\ UNCHANGED extVars
        \/ OpenCloseLid_SetFlag(t) /\ UNCHANGED extVars
        \/ TcReturns(t) /\ UNCHANGED extVars
        \/ TcRaises(t) /\ UNCHANGED extVars

\* The thread of a running call keeps being scheduled, and a thermal
\* cycler command returns or raises.
SpecDeckFair ==
    /\ Init
    /\ [][DeckSeqNext]_vars
    /\ \A t \in Threads : WF_vars(DeckFlowStep(t) /\ UNCHANGED extVars)


\* ------------------------------------------------------ manual control
WithArg(s, arg) == [s EXCEPT ![Len(s)] = [@ EXCEPT !.arg = arg]]

\* The manual-control session of flow t is active: joystick_control has
\* started its listener thread and has not left its while loop.
SessionActive(t) ==
    /\ stack[t] # <<>>
    /\ stack[t][1].proc = "joystick_control"
    /\ stack[t][1].pc = "loop"

\* The listener thread (start_listening): controller.start_pygame()
Listener_StartPygame(l) ==
    /\ listener[l] = "start_pygame"
    /\ pygame_running' = TRUE
    /\ listener' = [listener EXCEPT ![l] = "listen"]
    /\ UNCHANGED <<stack, opsLeft, cur, trace, tc_lid_flag, stop_joystick, joy, round, stopReq>>

\* controller.listen(): the listener collects the inputs the user made
Listener_Poll(l) ==
    /\ listener[l] = "listen"
    /\ ~stop_joystick
    /\ joy = NoInputs
    /\ \E snap \in InputSnapshots : joy' = snap
    /\ UNCHANGED <<stack, opsLeft, cur, trace, tc_lid_flag, stop_joystick,
                   pygame_running, listener, round, stopReq>>

\* controller.listen(): the user pressed the input that ends manual control
Listener_StopPressed(l) ==
    /\ listener[l] = "listen"
    /\ ~stop_joystick
    /\ stop_joystick' = TRUE
    /\ UNCHANGED <<stack, opsLeft, cur, trace, tc_lid_flag, pygame_running,
                   listener, joy, round, stopReq>>

\* controller.listen(): the listener observes stop_joystick and ends
Listener_Exit(l) ==
    /\ listener[l] = "listen"
    /\ stop_joystick
    /\ listener' = [listener EXCEPT ![l] = "none"]
    /\ pygame_running' = FALSE
    /\ UNCHANGED <<stack, opsLeft, cur, trace, tc_lid_flag, stop_joystick, joy, round, stopReq>>

\* stop_joystick_control, called by a handler
StopJoystickControl(t) ==
    /\ AtPc(t, "stop_joystick_control", "start")
    /\ stop_joystick' = TRUE
    /\ stopReq' = [u \in Threads |-> stopReq[u] \/ SessionActive(u)]
    /\ Ret(t)
    /\ UNCHANGED <<opsLeft, cur, trace, tc_lid_flag, pygame_running, listener, joy, round>>

\* joystick_control: self.controller.stop_joystick = False
JoystickControl(t) ==
    /\ AtPc(t, "joystick_control", "start")
    /\ stop_joystick' = FALSE
    /\ Goto(t, "check")
    /\ UNCHANGED <<opsLeft, cur, trace, tc_lid_flag, pygame_running, listener, joy,
                   round, stopReq>>

\* joystick_control: if not pygame_running: t1 = Thread(...); t1.start()
JoystickControl_Check(t) ==
    /\ AtPc(t, "joystick_control", "check")
    /\ IF ~pygame_running
       THEN LET l == <<t, opsLeft[t]>>
            IN  /\ listener' = [listener EXCEPT ![l] = "start_pygame"]
                /\ stack' = [stack EXCEPT ![t] = WithArg(WithPc(@, "loop"), l)]
       ELSE /\ Ret(t)
            /\ UNCHANGED listener
    /\ UNCHANGED <<opsLeft, cur, trace, tc_lid_flag, stop_joystick, pygame_running,
                   joy, round, stopReq>>

\* joystick_control: while t1.is_alive(): monitor_joystick(); sleep(0.1)
JoystickControl_Loop(t) ==
    /\ AtPc(t, "joystick_control", "loop")
    /\ IF IsAlive(Top(t).arg)
       THEN CallFrom(t, "loop", Frame("monitor_joystick", <<>>))
       ELSE Goto(t, "stop")
    /\ round' = [round EXCEPT ![t] = NoRound]
    /\ UNCHANGED <<opsLeft, cur, trace, tc_lid_flag, stop_joystick, pygame_running,
                   listener, joy, stopReq>>

\* joystick_control: self.stop_joystick_control() after the loop
JoystickControl_Stop(t) ==
    /\ AtPc(t, "joystick_control", "stop")
    /\ stop_joystick' = TRUE
    /\ stopReq' = [u \in Threads |-> stopReq[u] \/ SessionActive(u)]
    /\ Ret(t)
    /\ UNCHANGED <<opsLeft, cur, trace, tc_lid_flag, pygame_running, listener, joy, round>>

\* monitor_joystick: buttons, hats, axes = self.controller.deliver_joy()
MonitorJoystick(t) ==
    /\ AtPc(t, "monitor_joystick", "start")
    /\ round' = [round EXCEPT ![t] =
                    [buttons |-> joy.buttons, hats |-> joy.hats,
                     axes |-> joy.axes, done |-> <<>>]]
    /\ stack' = [stack EXCEPT ![t] = WithArg(WithPc(@, "reset"), joy.buttons \o joy.axes)]
    /\ UNCHANGED <<opsLeft, cur, trace, tc_lid_flag, stop_joystick, pygame_running,
                   listener, joy, stopReq>>

\* monitor_joystick: self.controller.reset_values()
MonitorJoystick_Reset(t) ==
    /\ AtPc(t, "monitor_joystick", "reset")
    /\ joy' = NoInputs
    /\ Goto(t, "dispatch")
    /\ UNCHANGED <<opsLeft, cur, trace, tc_lid_flag, stop_joystick, pygame_running,
                   listener, round, stopReq>>

\* Fault variant of the dispatch loops: the loops are left as soon as the
\* stop flag is seen.
MonitorJoystick_BreakOnStop(t) ==
    /\ AtPc(t, "monitor_joystick", "dispatch")
    /\ LET pending == Top(t).arg
       IN  IF pending = <<>> \/ stop_joystick
           THEN Ret(t)
           ELSE IF /\ Head(pending) \in DOMAIN controller_profile
                   /\ controller_profile[Head(pending)] \in DriverMethods
                THEN stack' = [stack EXCEPT ![t] =
                                  Append(WithArg(@, Tail(pending)),
                                         Frame("ot_method", controller_profile[Head(pending)]))]
                ELSE Raise(t)
    /\ UNCHANGED <<opsLeft, cur, trace, tc_lid_flag, joyVars>>

\* monitor_joystick: the two for loops (buttons, then axes); each input is
\* looked up in the profile (KeyError when it has no entry), the method is
\* looked up on the driver (False, and calling it a TypeError, when the
\* driver has none of that name) and called.
MonitorJoystick_Dispatch(t) ==
    /\ AtPc(t, "monitor_joystick", "dispatch")
    /\ LET pending == Top(t).arg
       IN  IF pending = <<>>
           THEN Ret(t)
           ELSE IF /\ Head(pending) \in DOMAIN controller_profile
                   /\ controller_profile[Head(pending)] \in DriverMethods
                THEN stack' = [stack EXCEPT ![t] =
                                  Append(WithArg(@, Tail(pending)),
                                         Frame("ot_method", controller_profile[Head(pending)]))]
                ELSE Raise(t)
    /\ UNCHANGED <<opsLeft, cur, trace, tc_lid_flag, joyVars>>

\* method(self.ot_control.xyz_step_size) returns
OtMethod(t) ==
    /\ AtPc(t, "ot_method", "start")
    /\ round' = [round EXCEPT ![t].done = Append(@, Top(t).arg)]
    /\ Ret(t)
    /\ UNCHANGED <<opsLeft, cur, trace, tc_lid_flag, stop_joystick, pygame_running,
                   listener, joy, stopReq>>

\* Targets of the go_to_position calls handlers make directly
\* (test_calibration).
ApiTargets == {<<0, 0, 0>>}

\* Handler invocations made so far, over all flows.
Invoked == Cardinality(Threads) * MaxOps - opsLeft["h1"] - opsLeft["h2"]

\* The handlers that start or stop manual control, and one that moves the
\* gantry.
InvokeJoy(t) ==
    /\ Invoked < MaxJoyOps
    /\ \/ /\ Invoke(t, "joystick_control", <<>>)
          /\ stopReq' = [stopReq EXCEPT ![t] = FALSE]
       \/ /\ Invoke(t, "stop_joystick_control", <<>>)
          /\ UNCHANGED stopReq
       \/ /\ \E loc \in ApiTargets : Invoke(t, "go_to_position", loc)
          /\ UNCHANGED stopReq
    /\ round' = [round EXCEPT ![t] = NoRound]
    /\ UNCHANGED <<tc_lid_flag, stop_joystick, pygame_running, listener, joy>>

\* A step of flow t inside the operation it is running.
JoyFlowStep(t) ==
    \/ StopJoystickControl(t)
    \/ JoystickControl(t)
    \/ JoystickControl_Check(t)
    \/ JoystickControl_Loop(t)
    \/ JoystickControl_Stop(t)
    \/ MonitorJoystick(t)
    \/ MonitorJoystick_Reset(t)
    \/ MonitorJoystick_Dispatch(t)
    \/ OtMethod(t)
    \/ GoToPosition(t)
    \/ MoveTo_Lift(t)
    \/ MoveTo_Translate(t)
    \/ MoveTo_Descend(t)

JoyNext ==
    \/ \E t \in Threads : InvokeJoy(t) /\ UNCHANGED extVars
    \/ \E t \in Threads : StopJoystickControl(t) /\ UNCHANGED extVars
    \/ \E t \in Threads : JoystickControl(t) /\ UNCHANGED extVars
    \/ \E t \in Threads : JoystickControl_Check(t) /\ UNCHANGED extVars
    \/ \E t \in Threads : JoystickControl_Loop(t) /\ UNCHANGED extVars
    \/ \E t \in Threads : JoystickControl_Stop(t) /\ UNCHANGED extVars
    \/ \E t \in Threads : MonitorJoystick(t) /\ UNCHANGED extVars
    \/ \E t \in Threads : MonitorJoystick_Reset(t) /\ UNCHANGED extVars
    \/ \E t \in Threads : MonitorJoystick_Dispatch(t) /\ UNCHANGED extVars
    \/ \E t \in Threads : OtMethod(t) /\ UNCHANGED extVars
    \/ \E t \in Threads : GoToPosition(t) /\ UNCHANGED extVars
    \/ \E t \in Threads : MoveTo_Lift(t) /\ UNCHANGED extVars
    \/ \E t \in Threads : MoveTo_Translate(t) /\ UNCHANGED extVars
    \/ \E t \in Threads : MoveTo_Descend(t) /\ UNCHANGED extVars
    \/ \E l \in ListenerIds : Listener_StartPygame(l) /\ UNCHANGED extVars
    \/ \E l \in ListenerIds : Listener_Poll(l) /\ UNCHANGED extVars
    \/ \E l \in ListenerIds : Listener_StopPressed(l) /\ UNCHANGED extVars
    \/ \E l \in ListenerIds : Listener_Exit(l) /\ UNCHANGED extVars

SpecJoy == Init /\ [][JoyNext]_vars

\* Scheduling is fair: a flow that can take a step of its operation
\* eventually takes one, and so does a listener thread that is starting or
\* that can observe the stop flag.  Nothing forces the user to make an input.
JoyFairness ==
    /\ \A t \in Threads : WF_vars(JoyFlowStep(t) /\ UNCHANGED extVars)
    /\ \A l \in ListenerIds : WF_vars(Listener_StartPygame(l) /\ UNCHANGED extVars)
    /\ \A l \in ListenerIds : WF_vars(Listener_Exit(l) /\ UNCHANGED extVars)

SpecJoyFair == SpecJoy /\ JoyFairness


\* ------------------------------------------------------ temperature
\* Times are in quarter minutes, temperatures in whole degrees.
MaxHold == 3
ReadSpread == 2
\* Handler invocations, over all flows, explored in one behaviour of the
\* temperature specification.
MaxTempOps == 1
\* min_count = min_count + 0.5
HOLD_STEP == 2
\* the allowance of 1 degree around the target
ALLOWANCE == 1
TempProcs == {"set_block_temp", "set_tempdeck_temp"}
TargetTemps == {4, 55}
HoldTimes == (0 - MaxHold) .. MaxHold
Readings(target) == (target - ReadSpread) .. (target + ReadSpread)

\* hold_time_in_secs = holding_time_in_minutes * 60
hold_time_in_secs(hold) == hold * 15

\* The negation of the while condition of the ramp loop.
InBand(current_temp, target) ==
    ~(current_temp < target - ALLOWANCE \/ current_temp > target + ALLOWANCE)

\* set_block_temp: self.set_temperature(temp, hold_time)
SetBlockTemp(t) ==
    /\ AtPc(t, "set_block_temp", "start")
    /\ Log(t, Ev("tc", "set_temperature", {},
                 <<Top(t).arg.target, hold_time_in_secs(Top(t).arg.hold)>>))
    /\ Goto(t, "read")
    /\ UNCHANGED <<opsLeft, cur, tc_lid_flag, joyVars>>

\* set_tempdeck_temp: self.td_control.start_set_temperature(celcius)
SetTempdeckTemp(t) ==
    /\ AtPc(t, "set_tempdeck_temp", "start")
    /\ Log(t, Ev("td", "start_set_temperature", {}, <<Top(t).arg.target>>))
    /\ Goto(t, "read")
    /\ UNCHANGED <<opsLeft, cur, tc_lid_flag, joyVars>>

\* current_temp = <first reading of the device>
FirstRead(t, proc) ==
    /\ AtPc(t, proc, "read")
    /\ \E r \in Readings(Top(t).arg.target) :
          stack' = [stack EXCEPT ![t] =
                       WithArg(WithPc(@, "ramp"),
                               [target |-> Top(t).arg.target, hold |-> Top(t).arg.hold,
                                current_temp |-> r])]
    /\ UNCHANGED <<opsLeft, cur, trace, tc_lid_flag, joyVars>>

\* Fault variant of the ramp loop: the hold starts without waiting for the
\* block to come within the allowance.
RampStep_NoWait(t, proc) ==
    /\ AtPc(t, proc, "ramp")
    /\ stack' = [stack EXCEPT ![t] =
                    WithArg(WithPc(@, "hold"),
                            [target |-> Top(t).arg.target, hold |-> Top(t).arg.hold,
                             current_temp |-> Top(t).arg.current_temp,
                             min_count |-> 0, waits |-> 0])]
    /\ UNCHANGED <<opsLeft, cur, trace, tc_lid_flag, joyVars>>

\* The ramp loop: while the reading is outside the allowance, read again and
\* sleep 5 s; then min_count = 0.
RampStep(t, proc) ==
    /\ AtPc(t, proc, "ramp")
    /\ IF ~InBand(Top(t).arg.current_temp, Top(t).arg.target)
       THEN \E r \in Readings(Top(t).arg.target) :
               stack' = [stack EXCEPT ![t] =
                            WithArg(@, [Top(t).arg EXCEPT !.current_temp = r])]
       ELSE stack' = [stack EXCEPT ![t] =
                         WithArg(WithPc(@, "hold"),
                                 [target |-> Top(t).arg.target, hold |-> Top(t).arg.hold,
                                  current_temp |-> Top(t).arg.current_temp,
                                  min_count |-> 0, waits |-> 0])]
    /\ UNCHANGED <<opsLeft, cur, trace, tc_lid_flag, joyVars>>

\* Fault variant of the hold loop: it goes on while min_count <= hold.
HoldStep_Inclusive(t, proc) ==
    /\ AtPc(t, proc, "hold")
    /\ IF Top(t).arg.min_count <= Top(t).arg.hold
       THEN stack' = [stack EXCEPT ![t] =
                         WithArg(@, [Top(t).arg EXCEPT !.min_count = @ + HOLD_STEP,
                                                       !.waits = @ + 1])]
       ELSE Ret(t)
    /\ UNCHANGED <<opsLeft, cur, trace, tc_lid_flag, joyVars>>

\* Fault variant of the hold loop: the 30 s sleeps are not counted.
HoldStep_NoCount(t, proc) ==
    /\ AtPc(t, proc, "hold")
    /\ IF Top(t).arg.min_count < Top(t).arg.hold
       THEN stack' = [stack EXCEPT ![t] =
                         WithArg(@, [Top(t).arg EXCEPT !.waits = (@ + 1) % 2])]
       ELSE Ret(t)
    /\ UNCHANGED <<opsLeft, cur, trace, tc_lid_flag, joyVars>>

\* The hold loop: while min_count < holding_time_in_minutes: sleep 30 s,
\* min_count += 0.5.  waits counts the 30 s sleeps.
HoldStep(t, proc) ==
    /\ AtPc(t, proc, "hold")
    /\ IF Top(t).arg.min_count < Top(t).arg.hold
       THEN stack' = [stack EXCEPT ![t] =
                         WithArg(@, [Top(t).arg EXCEPT !.min_count = @ + HOLD_STEP,
                                                       !.waits = @ + 1])]
       ELSE Ret(t)
    /\ UNCHANGED <<opsLeft, cur, trace, tc_lid_flag, joyVars>>

SetBlockTemp_Read(t) == FirstRead(t, "set_block_temp")
SetBlockTemp_Ramp(t) == RampStep(t, "set_block_temp")
SetBlockTemp_Hold(t) == HoldStep(t, "set_block_temp")
SetTempdeckTemp_Read(t) == FirstRead(t, "set_tempdeck_temp")
SetTempdeckTemp_Ramp(t) == RampStep(t, "set_tempdeck_temp")
\* Fault variant of the hold loop of set_tempdeck_temp alone.
SetTempdeckTemp_HoldInclusive(t) == HoldStep_Inclusive(t, "set_tempdeck_temp")
SetTempdeckTemp_Hold(t) == HoldStep(t, "set_tempdeck_temp")

\* The set_temperature and set_tempdeck_temp handlers.
InvokeTemp(t) ==
    /\ Invoked < MaxTempOps
    /\ \E proc \in TempProcs, target \in TargetTemps, hold \in HoldTimes :
          Invoke(t, proc, [target |-> target, hold |-> hold])
    /\ UNCHANGED <<tc_lid_flag, joyVars>>

TempNext ==
    \E t \in Threads :
        \/ InvokeTemp(t) /\ UNCHANGED extVars
        \/ SetBlockTemp(t) /\ UNCHANGED extVars
        \/ SetBlockTemp_Read(t) /\ UNCHANGED extVars
        \/ SetBlockTemp_Ramp(t) /\ UNCHANGED extVars
        \/ SetBlockTemp_Hold(t) /\ UNCHANGED extVars
        \/ SetTempdeckTemp(t) /\ UNCHANGED extVars
        \/ SetTempdeckTemp_Read(t) /\ UNCHANGED extVars
        \/ SetTempdeckTemp_Ramp(t) /\ UNCHANGED extVars
        \/ SetTempdeckTemp_Hold(t) /\ UNCHANGED extVars

SpecTemp == Init /\ [][TempNext]_vars

\* A step of flow t inside the temperature operation it is running.
TempFlowStep(t) ==
    \/ SetBlockTemp(t)
    \/ SetBlockTemp_Read(t)
    \/ SetBlockTemp_Ramp(t)
    \/ SetBlockTemp_Hold(t)
    \/ SetTempdeckTemp(t)
    \/ SetTempdeckTemp_Read(t)
    \/ SetTempdeckTemp_Ramp(t)
    \/ SetTempdeckTemp_Hold(t)

\* Temperature calls made one at a time: a call keeps all it reads and
\* writes in its own locals, so calls of different flows do not interact.
TempSeqNext ==
    \/ \E t \in Threads :
          InvokeTemp(t) /\ (\A u \in Threads : stack[u] = <<>>) /\ UNCHANGED extVars
    \/ \E t \in Threads : SetBlockTemp(t) /\ UNCHANGED extVars
    \/ \E t \in Threads : SetBlockTemp_Read(t) /\ UNCHANGED extVars
    \/ \E t \in Threads : SetBlockTemp_Ramp(t) /\ UNCHANGED extVars
    \/ \E t \in Threads : SetBlockTemp_Hold(t) /\ UNCHANGED extVars
    \/ \E t \in Threads : SetTempdeckTemp(t) /\ UNCHANGED extVars
    \/ \E t \in Threads : SetTempdeckTemp_Read(t) /\ UNCHANGED extVars
    \/ \E t \in Threads : SetTempdeckTemp_Ramp(t) /\ UNCHANGED extVars
    \/ \E t \in Threads : SetTempdeckTemp_Hold(t) /\ UNCHANGED extVars

\* The flow that runs a temperature call keeps being scheduled, and its
\* sleeps end.  Nothing is assumed about what the sensor reports.
SpecTempFair ==
    /\ Init
    /\ [][TempSeqNext]_vars
    /\ \A t \in Threads : WF_vars(TempFlowStep(t) /\ UNCHANGED extVars)

\* ------------------------------------------------------ stop signals
\* stop_protocol: pass
StopProtocol(t) ==
    /\ AtPc(t, "stop_protocol", "start")
    /\ Ret(t)
    /\ UNCHANGED <<opsLeft, cur, trace, tc_lid_flag, joyVars>>

\* The stop signals the coordinator offers to other flows.
StopOps == {"stop_protocol", "stop_joystick_control"}

\* Flow t is in the ramp or the hold loop of a temperature call.
Waiting(t) ==
    /\ stack[t] # <<>>
    /\ Top(t).proc \in TempProcs
    /\ Top(t).pc \in {"ramp", "hold"}

\* A flow raises a stop signal while another flow is in its ramp or hold
\* loop.
InvokeStop(t) ==
    /\ \E u \in Threads \ {t} : Waiting(u)
    /\ \E op \in StopOps : Invoke(t, op, <<>>)
    /\ UNCHANGED <<tc_lid_flag, joyVars>>

StopNext ==
    \/ \E t \in Threads : InvokeTemp(t) /\ UNCHANGED extVars
    \/ \E t \in Threads : SetBlockTemp(t) /\ UNCHANGED extVars
    \/ \E t \in Threads : SetBlockTemp_Read(t) /\ UNCHANGED extVars
    \/ \E t \in Threads : SetBlockTemp_Ramp(t) /\ UNCHANGED extVars
    \/ \E t \in Threads : SetBlockTemp_Hold(t) /\ UNCHANGED extVars
    \/ \E t \in Threads : SetTempdeckTemp(t) /\ UNCHANGED extVars
    \/ \E t \in Threads : SetTempdeckTemp_Read(t) /\ UNCHANGED extVars
    \/ \E t \in Threads : SetTempdeckTemp_Ramp(t) /\ UNCHANGED extVars
    \/ \E t \in Threads : SetTempdeckTemp_Hold(t) /\ UNCHANGED extVars
    \/ \E t \in Threads : InvokeStop(t) /\ UNCHANGED extVars
    \/ \E t \in Threads : StopProtocol(t) /\ UNCHANGED extVars
    \/ \E t \in Threads : StopJoystickControl(t) /\ UNCHANGED extVars

SpecStop == Init /\ [][StopNext]_vars

\* ------------------------------------------------------ the two waits side by side
\* set_block_temp in one flow and set_tempdeck_temp in the other, called
\* with the same target and hold time, their sensors reporting the same
\* temperatures poll by poll.
MaxPolls == 2

Ph(name, val) == [ph |-> name, val |-> val]

\* The polls flow t has made so far.
Polls(t) == Cardinality({i \in 1 .. Len(phases[t]) : phases[t][i].ph = "poll"})

Phase(t, e) == phases' = [phases EXCEPT ![t] = Append(@, e)]

\* The set_temperature handler starts set_block_temp.
PairInvokeBlock(t) ==
    /\ feed = <<>>
    /\ \A u \in Threads : cur[u].op = "none"
    /\ \E target \in TargetTemps, hold \in HoldTimes :
          /\ Invoke(t, "set_block_temp", [target |-> target, hold |-> hold])
          /\ \E f \in [1 .. MaxPolls -> Readings(target)] : feed' = f
    /\ UNCHANGED <<tc_lid_flag, joyVars, phases, washVars, connVars, coordVars, labVars, webVars>>

\* The set_tempdeck_temp handler starts set_tempdeck_temp with the
\* arguments of the other flow's set_block_temp.
PairInvokeTempdeck(t) ==
    /\ cur[t].op = "none"
    /\ \E u \in Threads \ {t} :
          /\ cur[u].op = "set_block_temp"
          /\ Invoke(t, "set_tempdeck_temp", cur[u].arg)
    /\ UNCHANGED <<tc_lid_flag, joyVars, feed, phases, washVars, connVars, coordVars, labVars, webVars>>

\* The command to the device.
Pair_Command(t) ==
    /\ SetBlockTemp(t) \/ SetTempdeckTemp(t)
    /\ Phase(t, Ph("command", Top(t).arg.target))
    /\ UNCHANGED <<feed, washVars, connVars, coordVars, labVars, webVars>>

\* The first reading: the sensor reports the next temperature of the feed.
Pair_Read(t) ==
    /\ Polls(t) < Len(feed)
    /\ SetBlockTemp_Read(t) \/ SetTempdeckTemp_Read(t)
    /\ Top(t)'.arg.current_temp = feed[Polls(t) + 1]
    /\ Phase(t, Ph("poll", feed[Polls(t) + 1]))
    /\ UNCHANGED <<feed, washVars, connVars, coordVars, labVars, webVars>>

\* A pass of the ramp loop, or its end.
Pair_Ramp(t) ==
    /\ SetBlockTemp_Ramp(t) \/ SetTempdeckTemp_Ramp(t)
    /\ IF Top(t)'.pc = "ramp"
       THEN /\ Polls(t) < Len(feed)
            /\ Top(t)'.arg.current_temp = feed[Polls(t) + 1]
            /\ Phase(t, Ph("poll", feed[Polls(t) + 1]))
       ELSE Phase(t, Ph("hold", 0))
    /\ UNCHANGED <<feed, washVars, connVars, coordVars, labVars, webVars>>

\* A pass of the hold loop, or the return.
Pair_Hold(t) ==
    /\ SetBlockTemp_Hold(t) \/ SetTempdeckTemp_Hold(t)
    /\ IF stack'[t] = <<>>
       THEN Phase(t, Ph("done", 0))
       ELSE Phase(t, Ph("wait", 0))
    /\ UNCHANGED <<feed, washVars, connVars, coordVars, labVars, webVars>>

PairNext ==
    \E t \in Threads :
        \/ PairInvokeBlock(t)
        \/ PairInvokeTempdeck(t)
        \/ Pair_Command(t)
        \/ Pair_Read(t)
        \/ Pair_Ramp(t)
        \/ Pair_Hold(t)

SpecPair == Init /\ [][PairNext]_vars

\* ------------------------------------------------------ wash protocols
\* Operations a protocol script may run in one behaviour of the wash
\* specification.
MaxWashOps == 3
AIR_GAP_NL_AMOUNT == 50
AIR_GAP_ASPIRATING_Z_STEP_DISTANCE == 25
DEFAULT_RATE == 50

\* The parameters of the syringe model in use (lower limit, upper limit and
\* sweet spot on the B axis).
syringe_parameters ==
    [lower_syringe_limit |-> 0, upper_syringe_limit |-> 100, sweetspot_on_syringe |-> 50]

\* The positions a protocol passes to set_washing_positions.
WashLayout == [clean |-> <<20, 0, 0>>, wash |-> <<10, 0, 0>>, waste |-> <<0, 0, 0>>]
\* The arguments protocols pass to mid_wash, set_amount_wanted and the rates.
MidWashArgs ==
    {[left_over |-> 200, cushion_1 |-> 200, cushion_2 |-> 300, rate |-> 50],
     [left_over |-> 0, cushion_1 |-> 100, cushion_2 |-> 0, rate |-> 50]}
AmountsWanted == {500}
WashRates == {50}

Log2(t, e1, e2) == trace' = [trace EXCEPT ![t] = @ \o <<e1, e2>>]

\* Go on at pc next, or return when the call was the last statement.
Then(t, next) == IF next = "ret" THEN Ret(t) ELSE Goto(t, next)

\* self.go_to_position(loc) as statement pc of proc.
GoCall(t, proc, pc, next, loc) ==
    /\ AtPc(t, proc, pc)
    /\ CallFrom(t, next, Frame("go_to_position", loc))
    /\ UNCHANGED <<opsLeft, cur, trace, tc_lid_flag, joyVars, extVars>>

\* self.move_plunger(b, speed): ot_control.move({'B': b}, speed).  The speed
\* is written as the flow rate it was converted from.
PlungerCall(t, proc, pc, next, b, rate) ==
    /\ AtPc(t, proc, pc)
    /\ Log2(t, Ev("coord", "move_plunger", {}, <<b, rate>>),
               Ev("motor", "move", {"B"}, <<b, rate>>))
    /\ Then(t, next)
    /\ UNCHANGED <<opsLeft, cur, tc_lid_flag, joyVars, extVars>>

\* self.aspirate(volume, rate): pick_up_liquid(int(volume), rate), which
\* calls ot_control.plunger_L_Up with the displacement for that volume.
AspirateCall(t, proc, pc, next, volume, rate) ==
    /\ AtPc(t, proc, pc)
    /\ Log2(t, Ev("coord", "aspirate", {}, <<volume, rate>>),
               Ev("motor", "plunger_L_Up", {"B"}, <<volume, rate>>))
    /\ Then(t, next)
    /\ UNCHANGED <<opsLeft, cur, tc_lid_flag, joyVars, extVars>>

\* self.dispense(volume, rate): drop_off_liquid(int(volume), rate), which
\* calls ot_control.plunger_L_Down.
DispenseCall(t, proc, pc, next, volume, rate) ==
    /\ AtPc(t, proc, pc)
    /\ Log2(t, Ev("coord", "dispense", {}, <<volume, rate>>),
               Ev("motor", "plunger_L_Down", {"B"}, <<volume, rate>>))
    /\ Then(t, next)
    /\ UNCHANGED <<opsLeft, cur, tc_lid_flag, joyVars, extVars>>

\* self.air_gap() as statement pc of proc.
AirGapCall(t, proc, pc) ==
    /\ AtPc(t, proc, pc)
    /\ CallFrom(t, "ret", Frame("air_gap", <<>>))
    /\ UNCHANGED <<opsLeft, cur, trace, tc_lid_flag, joyVars, extVars>>

\* set_washing_positions(clean_water, wash_water, waste_water)
SetWashingPositions(t) ==
    /\ AtPc(t, "set_washing_positions", "start")
    /\ clean_water' = Top(t).arg.clean
    /\ wash_water' = Top(t).arg.wash
    /\ waste_water' = Top(t).arg.waste
    /\ Ret(t)
    /\ UNCHANGED <<opsLeft, cur, trace, tc_lid_flag, joyVars, pairVars, connVars, coordVars, labVars, webVars,
                   amount_wanted, position>>

\* set_amount_wanted(volume)
SetAmountWanted(t) ==
    /\ AtPc(t, "set_amount_wanted", "start")
    /\ amount_wanted' = Top(t).arg.volume
    /\ Ret(t)
    /\ UNCHANGED <<opsLeft, cur, trace, tc_lid_flag, joyVars, pairVars, connVars, coordVars, labVars, webVars,
                   clean_water, wash_water, waste_water, position>>

\* ot_control.move_to in the wash specification: the steps of move_to with
\* their effect on ot_control._position.  The lift raises Z at least to the
\* target height.
Max(a, b) == IF a >= b THEN a ELSE b

WashMoveTo_Lift(t) ==
    /\ MoveTo_Lift(t)
    /\ position' = IF Top(t).arg = <<>>
                   THEN position
                   ELSE [position EXCEPT !.Z = Max(@, Top(t).arg[3])]
    /\ heldPositions' = heldPositions \cup {position'}
    /\ UNCHANGED <<pairVars, connVars, labVars, webVars, clean_water, wash_water, waste_water,
                   amount_wanted>>

WashMoveTo_Translate(t) ==
    /\ MoveTo_Translate(t)
    /\ Top(t).arg # <<>>
    /\ position' = [position EXCEPT !.X = Top(t).arg[1], !.Y = Top(t).arg[2]]
    /\ heldPositions' = heldPositions \cup {position'}
    /\ UNCHANGED <<pairVars, connVars, labVars, webVars, clean_water, wash_water, waste_water,
                   amount_wanted>>

WashMoveTo_Descend(t) ==
    /\ MoveTo_Descend(t)
    /\ Top(t).arg # <<>>
    /\ position' = [position EXCEPT !.Z = Top(t).arg[3]]
    /\ heldPositions' = heldPositions \cup {position'}
    /\ UNCHANGED <<pairVars, connVars, labVars, webVars, clean_water, wash_water, waste_water,
                   amount_wanted>>

\* move_to(location=None): the driver fails when it takes the coordinates
\* out of the location, before or after it has lifted Z.
MoveTo_NoneLocation(t) ==
    /\ stack[t] # <<>>
    /\ Top(t).proc = "move_to"
    /\ Top(t).pc \in {"start", "translate"}
    /\ Top(t).arg = <<>>
    /\ Log(t, Ev("coord", "raise", {}, <<"TypeError">>))
    /\ Raise(t)
    /\ UNCHANGED <<opsLeft, cur, tc_lid_flag, joyVars, extVars>>

WashGoToPosition(t) == GoToPosition(t) /\ UNCHANGED extVars

\* air_gap: x = _position['X']
AirGap_ReadX(t) ==
    /\ AtPc(t, "air_gap", "start")
    /\ stack' = [stack EXCEPT ![t] = WithArg(WithPc(@, "y"), [x |-> position.X])]
    /\ UNCHANGED <<opsLeft, cur, trace, tc_lid_flag, joyVars, extVars>>

\* air_gap: y = _position['Y']
AirGap_ReadY(t) ==
    /\ AtPc(t, "air_gap", "y")
    /\ stack' = [stack EXCEPT ![t] =
                    WithArg(WithPc(@, "z"), [x |-> Top(t).arg.x, y |-> position.Y])]
    /\ UNCHANGED <<opsLeft, cur, trace, tc_lid_flag, joyVars, extVars>>

\* Fault variant of air_gap: the Z of the new location is the current Z.
AirGap_NoLift(t) ==
    /\ AtPc(t, "air_gap", "z")
    /\ stack' = [stack EXCEPT ![t] =
                    WithArg(WithPc(@, "move"),
                            [x |-> Top(t).arg.x, y |-> Top(t).arg.y, z |-> position.Z])]
    /\ UNCHANGED <<opsLeft, cur, trace, tc_lid_flag, joyVars, extVars>>

\* air_gap: z = _position['Z'] + AIR_GAP_ASPIRATING_Z_STEP_DISTANCE
AirGap_ReadZ(t) ==
    /\ AtPc(t, "air_gap", "z")
    /\ stack' = [stack EXCEPT ![t] =
                    WithArg(WithPc(@, "move"),
                            [x |-> Top(t).arg.x, y |-> Top(t).arg.y,
                             z |-> position.Z + AIR_GAP_ASPIRATING_Z_STEP_DISTANCE])]
    /\ UNCHANGED <<opsLeft, cur, trace, tc_lid_flag, joyVars, extVars>>

\* air_gap: self.go_to_position([x, y, z])
AirGap_Move(t) ==
    GoCall(t, "air_gap", "move", "aspirate",
           <<Top(t).arg.x, Top(t).arg.y, Top(t).arg.z>>)

\* air_gap: self.aspirate(AIR_GAP_NL_AMOUNT, rate = DEFAULT_RATE)
AirGap_Aspirate(t) ==
    AspirateCall(t, "air_gap", "aspirate", "ret", AIR_GAP_NL_AMOUNT, DEFAULT_RATE)

\* start_wash(rate)
StartWash_GoWaste(t) == GoCall(t, "start_wash", "start", "bottom", waste_water)
StartWash_Bottom(t) ==
    PlungerCall(t, "start_wash", "bottom", "go_wash",
                syringe_parameters.lower_syringe_limit, Top(t).arg.rate)
StartWash_GoWash(t) == GoCall(t, "start_wash", "go_wash", "top", wash_water)
\* Fault variant of start_wash: the plunger is not taken to the upper limit.
StartWash_TopSkipped(t) ==
    PlungerCall(t, "start_wash", "top", "bottom2",
                syringe_parameters.lower_syringe_limit, Top(t).arg.rate)
StartWash_Top(t) ==
    PlungerCall(t, "start_wash", "top", "bottom2",
                syringe_parameters.upper_syringe_limit, Top(t).arg.rate)
StartWash_Bottom2(t) ==
    PlungerCall(t, "start_wash", "bottom2", "go_clean",
                syringe_parameters.lower_syringe_limit, Top(t).arg.rate)
StartWash_GoClean(t) == GoCall(t, "start_wash", "go_clean", "sweet", clean_water)
StartWash_SweetSpot(t) ==
    PlungerCall(t, "start_wash", "sweet", "air_gap",
                syringe_parameters.sweetspot_on_syringe, Top(t).arg.rate)
StartWash_AirGap(t) == AirGapCall(t, "start_wash", "air_gap")

\* mid_wash(left_over, cushion_1, cushion_2, rate)
MidWash_GoWaste(t) == GoCall(t, "mid_wash", "start", "left_over", waste_water)
MidWash_LeftOver(t) ==
    DispenseCall(t, "mid_wash", "left_over", "go_wash", Top(t).arg.left_over, Top(t).arg.rate)
MidWash_GoWash(t) == GoCall(t, "mid_wash", "go_wash", "aspirate", wash_water)
\* Fault variant of mid_wash: the amount wanted is left out of the aspirate.
MidWash_AspirateCushionOnly(t) ==
    AspirateCall(t, "mid_wash", "aspirate", "dispense", Top(t).arg.cushion_1, Top(t).arg.rate)
MidWash_Aspirate(t) ==
    AspirateCall(t, "mid_wash", "aspirate", "dispense",
                 amount_wanted + Top(t).arg.cushion_1, Top(t).arg.rate)
MidWash_Dispense(t) ==
    DispenseCall(t, "mid_wash", "dispense", "go_clean",
                 amount_wanted + Top(t).arg.cushion_2, Top(t).arg.rate)
MidWash_GoClean(t) == GoCall(t, "mid_wash", "go_clean", "sweet", clean_water)
MidWash_SweetSpot(t) ==
    PlungerCall(t, "mid_wash", "sweet", "air_gap",
                syringe_parameters.sweetspot_on_syringe, Top(t).arg.rate)
MidWash_AirGap(t) == AirGapCall(t, "mid_wash", "air_gap")

\* fill_syringe_with_water(rate)
FillSyringe_GoClean(t) == GoCall(t, "fill_syringe_with_water", "start", "top", clean_water)
FillSyringe_Top(t) ==
    PlungerCall(t, "fill_syringe_with_water", "top", "ret",
                syringe_parameters.upper_syringe_limit, Top(t).arg.rate)

\* What the protocol has configured when it makes a call: kept with the
\* call's arguments.
WashConfig == [clean |-> clean_water, wash |-> wash_water, waste |-> waste_water,
               amount |-> amount_wanted, at |-> position]

\* A protocol script makes its next call; its calls are made one after the
\* other, each returning before the next.
InvokeWash(t) ==
    /\ \A u \in Threads : stack[u] = <<>>
    /\ Invoked < MaxWashOps
    /\ \/ Invoke(t, "set_washing_positions", WashLayout)
       \/ \E v \in AmountsWanted : Invoke(t, "set_amount_wanted", [volume |-> v])
       \/ \E r \in WashRates : Invoke(t, "start_wash", [rate |-> r, cfg |-> WashConfig])
       \/ \E a \in MidWashArgs :
             Invoke(t, "mid_wash",
                    [left_over |-> a.left_over, cushion_1 |-> a.cushion_1,
                     cushion_2 |-> a.cushion_2, rate |-> a.rate, cfg |-> WashConfig])
       \/ \E r \in WashRates :
             Invoke(t, "fill_syringe_with_water", [rate |-> r, cfg |-> WashConfig])
       \/ Invoke(t, "air_gap", [cfg |-> WashConfig])
    /\ UNCHANGED <<tc_lid_flag, joyVars, extVars>>

WashNext ==
    \E t \in Threads :
        \/ InvokeWash(t)
        \/ SetWashingPositions(t)
        \/ SetAmountWanted(t)
        \/ StartWash_GoWaste(t)
        \/ StartWash_Bottom(t)
        \/ StartWash_GoWash(t)
        \/ StartWash_Top(t)
        \/ StartWash_Bottom2(t)
        \/ StartWash_GoClean(t)
        \/ StartWash_SweetSpot(t)
        \/ StartWash_AirGap(t)
        \/ MidWash_GoWaste(t)
        \/ MidWash_LeftOver(t)
        \/ MidWash_GoWash(t)
        \/ MidWash_Aspirate(t)
        \/ MidWash_Dispense(t)
        \/ MidWash_GoClean(t)
        \/ MidWash_SweetSpot(t)
        \/ MidWash_AirGap(t)
        \/ FillSyringe_GoClean(t)
        \/ FillSyringe_Top(t)
        \/ AirGap_ReadX(t)
        \/ AirGap_ReadY(t)
        \/ AirGap_ReadZ(t)
        \/ AirGap_Move(t)
        \/ AirGap_Aspirate(t)
        \/ WashGoToPosition(t)
        \/ WashMoveTo_Lift(t)
        \/ WashMoveTo_Translate(t)
        \/ WashMoveTo_Descend(t)
        \/ MoveTo_NoneLocation(t)

SpecWash == Init /\ [][WashNext]_vars

\* ------------------------------------------------------------ connections
\* Bound on the connection operations invoked in one behaviour.
MaxConnOps == 2

\* How a call into a device driver ends: it returns, or raises a TypeError
\* (the exception connect_all catches), or raises any other exception.
DriverOutcomes == {"done", "TypeError", "SerialException"}

\* The values constants.py may give THERMOCYCLER_CONNECTED and
\* TEMPDECK_CONNECTED; a call is examined under each of them.
ConnectedFlags ==
    [THERMOCYCLER_CONNECTED : BOOLEAN, TEMPDECK_CONNECTED : BOOLEAN]

\* The call is made inside the try block of connect_all.
InTry(t) == stack[t][1].proc = "connect_all"

\* dev.cmd() as statement pc of proc, ending as o.  A TypeError inside the
\* try block is caught: connect_all prints and returns.
DriverCall(t, proc, pc, next, dev, cmd, o) ==
    /\ AtPc(t, proc, pc)
    /\ CASE o = "done" ->
              /\ Log(t, Ev(dev, cmd, {}, <<"done">>))
              /\ Then(t, next)
              /\ connected' = [connected EXCEPT ![dev] = (cmd = "connect")]
         [] o = "TypeError" /\ InTry(t) ->
              /\ Log2(t, Ev(dev, cmd, {}, <<"failed">>),
                         Ev("coord", "except", {}, <<o>>))
              /\ stack' = [stack EXCEPT ![t] = <<>>]
              /\ UNCHANGED connected
         [] OTHER ->
              /\ Log2(t, Ev(dev, cmd, {}, <<"failed">>),
                         Ev("coord", "raise", {}, <<o>>))
              /\ Raise(t)
              /\ UNCHANGED connected
    /\ UNCHANGED <<opsLeft, cur, tc_lid_flag, joyVars, pairVars, washVars, coordVars, labVars, webVars>>

\* disconnect_all: self.tc_disconnect()
DisconnectAll_Tc(t) ==
    \E o \in DriverOutcomes :
        DriverCall(t, "disconnect_all", "start", "ot", "tc", "disconnect", o)

\* disconnect_all: self.ot_control.disconnect()
DisconnectAll_Ot(t) ==
    \E o \in DriverOutcomes :
        DriverCall(t, "disconnect_all", "ot", "td", "ot", "disconnect", o)

\* disconnect_all: self.td_control.disconnect()
DisconnectAll_Td(t) ==
    \E o \in DriverOutcomes :
        DriverCall(t, "disconnect_all", "td", "ret", "td", "disconnect", o)

\* Fault variant of ConnectAll_Disconnect: the connects start without the
\* disconnect_all call.
ConnectAll_NoDisconnect(t) ==
    /\ AtPc(t, "connect_all", "start")
    /\ Goto(t, "tc_connect")
    /\ UNCHANGED <<opsLeft, cur, trace, tc_lid_flag, joyVars, extVars>>

\* connect_all: self.disconnect_all()
ConnectAll_Disconnect(t) ==
    /\ AtPc(t, "connect_all", "start")
    /\ CallFrom(t, "tc_connect", Frame("disconnect_all", <<>>))
    /\ UNCHANGED <<opsLeft, cur, trace, tc_lid_flag, joyVars, extVars>>

\* connect_all: if THERMOCYCLER_CONNECTED: tc_control._connect_to_port()
ConnectAll_Tc(t) ==
    /\ AtPc(t, "connect_all", "tc_connect")
    /\ Top(t).arg.THERMOCYCLER_CONNECTED
    /\ \E o \in DriverOutcomes :
          DriverCall(t, "connect_all", "tc_connect", "ot_connect", "tc", "connect", o)

ConnectAll_TcAbsent(t) ==
    /\ AtPc(t, "connect_all", "tc_connect")
    /\ ~Top(t).arg.THERMOCYCLER_CONNECTED
    /\ Goto(t, "ot_connect")
    /\ UNCHANGED <<opsLeft, cur, trace, tc_lid_flag, joyVars, extVars>>

\* connect_all: self.ot_control.connect_driver()
ConnectAll_Ot(t) ==
    \E o \in DriverOutcomes :
        DriverCall(t, "connect_all", "ot_connect", "td_connect", "ot", "connect", o)

\* connect_all: if TEMPDECK_CONNECTED: td_control.connect(ot_control._port)
ConnectAll_Td(t) ==
    /\ AtPc(t, "connect_all", "td_connect")
    /\ Top(t).arg.TEMPDECK_CONNECTED
    /\ \E o \in DriverOutcomes :
          DriverCall(t, "connect_all", "td_connect", "ret", "td", "connect", o)

ConnectAll_TdAbsent(t) ==
    /\ AtPc(t, "connect_all", "td_connect")
    /\ ~Top(t).arg.TEMPDECK_CONNECTED
    /\ Ret(t)
    /\ UNCHANGED <<opsLeft, cur, trace, tc_lid_flag, joyVars, extVars>>

\* The web handlers connect_all and reconnect_coordinator call connect_all;
\* run_protocol calls disconnect_all.  Handlers run in their own flows.
InvokeConn(t) ==
    /\ Invoked < MaxConnOps
    /\ \/ \E f \in ConnectedFlags : Invoke(t, "connect_all", f)
       \/ Invoke(t, "disconnect_all", <<>>)
    /\ UNCHANGED <<tc_lid_flag, joyVars, extVars>>

ConnNext ==
    \E t \in Threads :
        \/ InvokeConn(t)
        \/ DisconnectAll_Tc(t)
        \/ DisconnectAll_Ot(t)
        \/ DisconnectAll_Td(t)
        \/ ConnectAll_Disconnect(t)
        \/ ConnectAll_Tc(t)
        \/ ConnectAll_TcAbsent(t)
        \/ ConnectAll_Ot(t)
        \/ ConnectAll_Td(t)
        \/ ConnectAll_TdAbsent(t)

SpecConn == Init /\ [][ConnNext]_vars

\* ------------------------------------------------------------ coordinates
\* Bound on the operations invoked in one behaviour of SpecCoord.
MaxCoordOps == 3

\* Where the motion flow is sent.
CoordTargets == {<<10, 5, 0>>, <<20, 0, 30>>}

\* get_current_coordinates: self.ot_control._position['X']
GetCoordinates_ReadX(t) ==
    /\ AtPc(t, "get_current_coordinates", "start")
    /\ stack' = [stack EXCEPT ![t] = WithArg(WithPc(@, "y"), [x |-> position.X])]
    /\ UNCHANGED <<opsLeft, cur, trace, tc_lid_flag, joyVars, extVars>>

\* get_current_coordinates: self.ot_control._position['Y']
GetCoordinates_ReadY(t) ==
    /\ AtPc(t, "get_current_coordinates", "y")
    /\ stack' = [stack EXCEPT ![t] =
                    WithArg(WithPc(@, "z"), [x |-> Top(t).arg.x, y |-> position.Y])]
    /\ UNCHANGED <<opsLeft, cur, trace, tc_lid_flag, joyVars, extVars>>

\* get_current_coordinates: self.ot_control._position['Z'], and the return
\* of the triple.
GetCoordinates_ReadZ(t) ==
    /\ AtPc(t, "get_current_coordinates", "z")
    /\ Log(t, Ev("coord", "return", {}, <<Top(t).arg.x, Top(t).arg.y, position.Z>>))
    /\ Ret(t)
    /\ UNCHANGED <<opsLeft, cur, tc_lid_flag, joyVars, extVars>>

\* text_coordinates, called by the deliver_coordinates loop, reads the
\* coordinates while a handler of another flow moves the gantry.
InvokeCoord(t) ==
    /\ Invoked < MaxCoordOps
    /\ \/ /\ \A u \in Threads : cur[u].op = "get_current_coordinates" => stack[u] = <<>>
          /\ Invoke(t, "get_current_coordinates", <<>>)
          /\ heldPositions' = {position}
          /\ UNCHANGED <<pairVars, washVars, connVars, labVars, webVars>>
       \/ /\ \E loc \in CoordTargets : Invoke(t, "go_to_position", loc)
          /\ UNCHANGED extVars
    /\ UNCHANGED <<tc_lid_flag, joyVars>>

CoordNext ==
    \E t \in Threads :
        \/ InvokeCoord(t)
        \/ GetCoordinates_ReadX(t)
        \/ GetCoordinates_ReadY(t)
        \/ GetCoordinates_ReadZ(t)
        \/ WashGoToPosition(t)
        \/ WashMoveTo_Lift(t)
        \/ WashMoveTo_Translate(t)
        \/ WashMoveTo_Descend(t)

SpecCoord == Init /\ [][CoordNext]_vars

\* --------------------------------------------------------------- settings
\* Bounds on the operations invoked in one behaviour of SpecSettings, of
\* SpecDepth and of SpecCal.
MaxSettingOps == 2

MaxDepthOps == 2

MaxCalOps == 2

\* The names update_setting tests for, and names it does not know.
SettingNames ==
    {"coordinate_refresh_rate", "syringe_model", "syringe_default_speed",
     "xyz_axis_step_size", "xyz_axis_step_speed", "xyz_axis_gearbox"}

UnknownNames == {"xyz_step_size"}

\* The values the settings page sends: always text.
SettingValues == {"5", "7,8", "negative", "zero"}

\* value.split(",")
split(value) == IF value = "7,8" THEN <<"7", "8">> ELSE <<value>>

\* float(value) succeeds: the text is a number.
IsNumber(value) == value \in {"3", "5", "7", "8", "10", "11"}

\* float(value), in thousandths.
FloatOf(value) == float(value) * Thousandth

\* The setting update_setting(name, value) stores, or <<>> when a float()
\* of it raises ValueError.
NewSetting(name, value) ==
    CASE name = "syringe_model" -> <<value>>
      [] name = "xyz_axis_gearbox" ->
            IF \A i \in 1 .. Len(split(value)) : IsNumber(split(value)[i])
            THEN <<[i \in 1 .. Len(split(value)) |-> FloatOf(split(value)[i])]>>
            ELSE <<>>
      [] OTHER -> IF IsNumber(value) THEN <<FloatOf(value)>> ELSE <<>>

\* Fault variant of UpdateSetting: a name that is not known is taken for
\* the refresh rate.
UpdateSetting_FallsThrough(t) ==
    /\ AtPc(t, "update_setting", "start")
    /\ LET a == Top(t).arg
           name == IF a.name \in SettingNames THEN a.name ELSE "coordinate_refresh_rate"
           new == NewSetting(name, a.value)
       IN  IF new = <<>>
           THEN /\ Log(t, Ev("coord", "raise", {}, <<"ValueError">>))
                /\ Raise(t)
                /\ UNCHANGED settings
           ELSE /\ settings' = [settings EXCEPT ![name] = new[1]]
                /\ Ret(t)
                /\ UNCHANGED trace
    /\ UNCHANGED <<opsLeft, cur, tc_lid_flag, joyVars, pairVars, washVars, connVars,
                   coordVars, components, webVars>>

\* update_setting(property_name, value): the if / elif chain and its else.
UpdateSetting(t) ==
    /\ AtPc(t, "update_setting", "start")
    /\ LET a == Top(t).arg
           new == NewSetting(a.name, a.value)
       IN  IF a.name \notin SettingNames
           THEN /\ Log(t, Ev("coord", "logging.info", {}, <<a.name>>))
                /\ Ret(t)
                /\ UNCHANGED settings
           ELSE IF new = <<>>
                THEN /\ Log(t, Ev("coord", "raise", {}, <<"ValueError">>))
                     /\ Raise(t)
                     /\ UNCHANGED settings
                ELSE /\ settings' = [settings EXCEPT ![a.name] = new[1]]
                     /\ Ret(t)
                     /\ UNCHANGED trace
    /\ UNCHANGED <<opsLeft, cur, tc_lid_flag, joyVars, pairVars, washVars, connVars,
                   coordVars, components, webVars>>

\* ------------------------------------------------------------ plate depth
PLATE_DEPTH == "Plate's depth"

\* get_depth_of_labware(model)[0] for the plate models in use, in mm.
plate_default_depth(model) == IF model = "deep_plate" THEN 20 ELSE 10

PlateModels == {"plate", "deep_plate"}

\* The depth argument: the PLATE_DEPTH keyword or another string, an int or
\* a float.
Depths ==
    [type : {"str"}, text : {PLATE_DEPTH, "bottom"}, value : {0}]
    \cup [type : {"int", "float"}, text : {""}, value : {5, 10, 15}]

\* Fault variant of set_plate_depth: a depth equal to the nominal depth is
\* let through.
set_plate_depth_Inclusive(model, depth) ==
    IF depth.type = "str" /\ depth.text = PLATE_DEPTH
    THEN <<plate_default_depth(model) - 1>>
    ELSE IF depth.type = "int" /\ depth.value <= plate_default_depth(model)
         THEN <<depth.value>>
         ELSE <<>>

\* What set_plate_depth(model, depth) returns: <<d>> for the number d and
\* <<>> for None.
set_plate_depth(model, depth) ==
    IF depth.type = "str" /\ depth.text = PLATE_DEPTH
    THEN <<plate_default_depth(model) - 1>>
    ELSE IF depth.type = "int" /\ depth.value < plate_default_depth(model)
         THEN IF depth.value < plate_default_depth(model)
              THEN <<depth.value>>
              ELSE <<>>
         ELSE <<>>

\* The call as one step of a flow.
SetPlateDepth(t) ==
    /\ AtPc(t, "set_plate_depth", "start")
    /\ Log(t, Ev("coord", "return", {}, set_plate_depth(Top(t).arg.model, Top(t).arg.depth)))
    /\ Ret(t)
    /\ UNCHANGED <<opsLeft, cur, tc_lid_flag, joyVars, extVars>>

\* ------------------------------------------------------------- converters
\* Every floating-point operation rounds its result; the rounding is kept
\* by rounding every product and quotient to the thousandth.
Mul(a, b) == (a * b + Thousandth \div 2) \div Thousandth

Div(a, b) == (a * Thousandth + b \div 2) \div b

FROM_NANOLITERS == 1

UNIT_CONVERSION == 4

\* math.pi
pi == 3142

\* inner_diameter of the syringe models the models manager knows, in
\* thousandths of a mm; a model is stored as it was created, whatever its
\* diameter.
SyringeModels == {"default", "negative", "zero"}

inner_diameter(model) ==
    CASE model = "default" -> 2000
      [] model = "negative" -> 0 - 2000
      [] model = "zero" -> 0

\* area = math.pi * radius * radius, with radius = diameter / 2
area(diameter) ==
    LET radius == Div(diameter, 2 * Thousandth)
    IN  Mul(Mul(pi, radius), radius)

\* A converter from the syringe lookup on: the model read from the labware,
\* then the returned number or the exception of the statement that fails.
Converted(t, model, number) ==
    LET read == Ev("labware", "get_syringe_model", {}, <<model>>)
    IN  IF model \notin SyringeModels
        THEN /\ Log2(t, read, Ev("coord", "raise", {}, <<"ConversionError">>))
             /\ Raise(t)
        ELSE IF area(inner_diameter(model)) = 0
             THEN /\ Log2(t, read, Ev("coord", "raise", {}, <<"ZeroDivisionError">>))
                  /\ Raise(t)
             ELSE /\ Log2(t, read, Ev("coord", "return", {}, <<number>>))
                  /\ Ret(t)

\* Fault variant of FlowrateToSpeedConverter: the constants are multiplied
\* before the division by the area.
FlowrateToSpeedConverter_Regrouped(t) ==
    /\ AtPc(t, "flowrate_to_speed_converter", "start")
    /\ LET rate == Top(t).arg
           a == area(inner_diameter(settings.syringe_model))
       IN  Converted(t, settings.syringe_model,
                     Div(Mul(rate, Mul(FROM_NANOLITERS, UNIT_CONVERSION * Thousandth)), a))
    /\ UNCHANGED <<opsLeft, cur, tc_lid_flag, joyVars, extVars>>

\* volume_to_distance_converter(volume):
\*   distance_in_mm = volume * FROM_NANOLITERS / area
\*   return distance_in_mm * UNIT_CONVERSION
VolumeToDistanceConverter(t) ==
    /\ AtPc(t, "volume_to_distance_converter", "start")
    /\ LET volume == Top(t).arg
           a == area(inner_diameter(settings.syringe_model))
           distance_in_mm == Div(Mul(volume, FROM_NANOLITERS), a)
       IN  Converted(t, settings.syringe_model,
                     Mul(distance_in_mm, UNIT_CONVERSION * Thousandth))
    /\ UNCHANGED <<opsLeft, cur, tc_lid_flag, joyVars, extVars>>

\* flowrate_to_speed_converter(rate):
\*   return rate * FROM_NANOLITERS / area * UNIT_CONVERSION
FlowrateToSpeedConverter(t) ==
    /\ AtPc(t, "flowrate_to_speed_converter", "start")
    /\ LET rate == Top(t).arg
           a == area(inner_diameter(settings.syringe_model))
       IN  Converted(t, settings.syringe_model,
                     Mul(Div(Mul(rate, FROM_NANOLITERS), a), UNIT_CONVERSION * Thousandth))
    /\ UNCHANGED <<opsLeft, cur, tc_lid_flag, joyVars, extVars>>

\* The volumes (nL) and rates (nL/s) converted, in thousandths.
Quantities == {0, 50 * Thousandth, 1000 * Thousandth}

\* ------------------------------------------------------------ calibration
LABWARE_CHIP == "c"

LABWARE_PLATE == "p"

LABWARE_SYRINGE == "s"

\* The points a calibration samples: a first corner, and the points the
\* second and third are taken from (two of them in line with the first).
FirstCorner == <<1, 1, 0>>

Corners == {<<3, 1, 0>>, <<3, 2, 1>>, <<5, 1, 0>>}

CalibrationPointSets == {FirstCorner} \X Corners \X Corners

\* The cross product of the edge vectors p2 - p1 and p3 - p1 is zero.
Collinear(points) ==
    LET u == [i \in 1 .. 3 |-> points[2][i] - points[1][i]]
        v == [i \in 1 .. 3 |-> points[3][i] - points[1][i]]
    IN  /\ u[2] * v[3] - u[3] * v[2] = 0
        /\ u[3] * v[1] - u[1] * v[3] = 0
        /\ u[1] * v[2] - u[2] * v[1] = 0

\* calibration.guess_fourth_calibration_point: P4 = P1 + P3 - P2.
guess_fourth_calibration_point(points) ==
    [i \in 1 .. 3 |-> points[1][i] + points[3][i] - points[2][i]]

\* Fault variant of GuessFourthCalibrationPoint: the point is completed
\* from the second point, P4 = P2 + P3 - P1.
GuessFourthCalibrationPoint_FromSecond(t) ==
    /\ AtPc(t, "guess_fourth_calibration_point", "start")
    /\ LET points == Top(t).arg
       IN  Log(t, Ev("coord", "return", {},
                     [i \in 1 .. 3 |-> points[2][i] + points[3][i] - points[1][i]]))
    /\ Ret(t)
    /\ UNCHANGED <<opsLeft, cur, tc_lid_flag, joyVars, extVars>>

\* Coordinator.guess_fourth_calibration_point(calibration_points)
GuessFourthCalibrationPoint(t) ==
    /\ AtPc(t, "guess_fourth_calibration_point", "start")
    /\ Log(t, Ev("coord", "return", {}, guess_fourth_calibration_point(Top(t).arg)))
    /\ Ret(t)
    /\ UNCHANGED <<opsLeft, cur, tc_lid_flag, joyVars, extVars>>

\* Fault variant of AddLabwareComponent_Calibrate: the points are mapped
\* whatever their position.
AddLabwareComponent_Unchecked(t) ==
    /\ AtPc(t, "add_labware_component", "start")
    /\ IF Top(t).arg.labware_component \in {LABWARE_CHIP, LABWARE_PLATE}
       THEN Goto(t, "add")
       ELSE Ret(t)
    /\ UNCHANGED <<opsLeft, cur, trace, tc_lid_flag, joyVars, extVars>>

\* add_labware_component: the test of the component tag and
\* calibrate_model(component_parameters, calibration_points), which rejects
\* collinear points.  Any other tag falls through both branches.
AddLabwareComponent_Calibrate(t) ==
    /\ AtPc(t, "add_labware_component", "start")
    /\ LET a == Top(t).arg
       IN  IF a.labware_component \notin {LABWARE_CHIP, LABWARE_PLATE}
           THEN Ret(t) /\ UNCHANGED trace
           ELSE IF Collinear(a.calibration_points)
                THEN /\ Log(t, Ev("coord", "raise", {}, <<"DegenerateCalibrationError">>))
                     /\ Raise(t)
                ELSE Goto(t, "add") /\ UNCHANGED trace
    /\ UNCHANGED <<opsLeft, cur, tc_lid_flag, joyVars, extVars>>

\* add_labware_component: create_component(...) and myLabware.add_model(...)
AddLabwareComponent_Add(t) ==
    /\ AtPc(t, "add_labware_component", "add")
    /\ LET a == Top(t).arg
       IN  components' = Append(components,
                                [model |-> a.component_model,
                                 type |-> a.labware_component,
                                 corners |-> a.calibration_points])
    /\ Ret(t)
    /\ UNCHANGED <<opsLeft, cur, trace, tc_lid_flag, joyVars, pairVars, washVars,
                   connVars, coordVars, settings, webVars>>

\* The calibration page: test_calibration previews the fourth point,
\* good_calibration adds the component.  One call at a time.
InvokeCal(t) ==
    /\ \A u \in Threads : stack[u] = <<>>
    /\ Invoked < MaxCalOps
    /\ \/ \E ps \in CalibrationPointSets : Invoke(t, "guess_fourth_calibration_point", ps)
       \/ \E c \in {LABWARE_CHIP, LABWARE_PLATE, LABWARE_SYRINGE},
             ps \in CalibrationPointSets :
             Invoke(t, "add_labware_component",
                    [labware_component |-> c, component_model |-> "model",
                     calibration_points |-> ps, components |-> components])
    /\ UNCHANGED <<tc_lid_flag, joyVars, extVars>>

CalNext ==
    \E t \in Threads :
        \/ InvokeCal(t)
        \/ GuessFourthCalibrationPoint(t)
        \/ AddLabwareComponent_Calibrate(t)
        \/ AddLabwareComponent_Add(t)

SpecCal == Init /\ [][CalNext]_vars

\* ------------------------------------------------- settings and liquids
\* pick_up_liquid: speed = self.flowrate_to_speed_converter(rate)
PickUpLiquid_Speed(t) ==
    /\ AtPc(t, "pick_up_liquid", "start")
    /\ CallFrom(t, "distance", Frame("flowrate_to_speed_converter", Top(t).arg.rate))
    /\ UNCHANGED <<opsLeft, cur, trace, tc_lid_flag, joyVars, extVars>>

\* pick_up_liquid: step_displacement = self.volume_to_distance_converter(volume)
PickUpLiquid_Distance(t) ==
    /\ AtPc(t, "pick_up_liquid", "distance")
    /\ CallFrom(t, "plunger", Frame("volume_to_distance_converter", Top(t).arg.volume))
    /\ UNCHANGED <<opsLeft, cur, trace, tc_lid_flag, joyVars, extVars>>

\* pick_up_liquid: self.ot_control.plunger_L_Up(step_displacement, speed, ...)
\* with the two numbers the converters returned.
PickUpLiquid_Plunger(t) ==
    /\ AtPc(t, "pick_up_liquid", "plunger")
    /\ LET n == Len(trace[t])
       IN  Log(t, Ev("motor", "plunger_L_Up", {"B"},
                     <<trace[t][n].arg[1], trace[t][n - 2].arg[1]>>))
    /\ Ret(t)
    /\ UNCHANGED <<opsLeft, cur, tc_lid_flag, joyVars, extVars>>

\* The settings page updates a setting; a protocol step picks liquid up.
InvokeSettings(t) ==
    /\ Invoked < MaxSettingOps
    /\ \/ \E n \in SettingNames \cup UnknownNames, v \in SettingValues :
             Invoke(t, "update_setting", [name |-> n, value |-> v, settings |-> settings])
       \/ \E v \in Quantities, r \in Quantities :
             Invoke(t, "pick_up_liquid", [volume |-> v, rate |-> r])
    /\ UNCHANGED <<tc_lid_flag, joyVars, extVars>>

SettingsNext ==
    \E t \in Threads :
        \/ InvokeSettings(t)
        \/ UpdateSetting(t)
        \/ PickUpLiquid_Speed(t)
        \/ PickUpLiquid_Distance(t)
        \/ PickUpLiquid_Plunger(t)
        \/ VolumeToDistanceConverter(t)
        \/ FlowrateToSpeedConverter(t)

SpecSettings == Init /\ [][SettingsNext]_vars

\* ------------------------------------------------------ depth overrides
\* Protocol steps choose the depth to work at.
InvokeDepth(t) ==
    /\ Invoked < MaxDepthOps
    /\ \E m \in PlateModels, d \in Depths :
          Invoke(t, "set_plate_depth", [model |-> m, depth |-> d])
    /\ UNCHANGED <<tc_lid_flag, joyVars, extVars>>

DepthNext ==
    \E t \in Threads :
        \/ InvokeDepth(t)
        \/ SetPlateDepth(t)

SpecDepth == Init /\ [][DepthNext]_vars

\* ------------------------------------------------- lid toggled twice
\* A protocol script that calls open_close_lid twice in a row; the operation
\* is recorded with the lid flag it started from.
ToggleTwice_First(t) ==
    /\ AtPc(t, "toggle_twice", "start")
    /\ CallFrom(t, "second", Frame("open_close_lid", <<>>))
    /\ UNCHANGED <<opsLeft, cur, trace, tc_lid_flag, joyVars, extVars>>

ToggleTwice_Second(t) ==
    /\ AtPc(t, "toggle_twice", "second")
    /\ CallFrom(t, "ret", Frame("open_close_lid", <<>>))
    /\ UNCHANGED <<opsLeft, cur, trace, tc_lid_flag, joyVars, extVars>>

\* The lid operations, called one after the other.
InvokeToggle(t) ==
    /\ \A u \in Threads : stack[u] = <<>>
    /\ \/ \E op \in {"open_lid", "close_lid", "open_close_lid"} : Invoke(t, op, <<>>)
       \/ Invoke(t, "toggle_twice", tc_lid_flag)
    /\ UNCHANGED <<tc_lid_flag, joyVars, extVars>>

ToggleNext ==
    \E t \in Threads :
        \/ InvokeToggle(t)
        \/ ToggleTwice_First(t)
        \/ ToggleTwice_Second(t)
        \/ GoToDeckSlot(t) /\ UNCHANGED extVars
        \/ GoToPosition(t) /\ UNCHANGED extVars
        \/ MoveTo_Lift(t) /\ UNCHANGED extVars
        \/ MoveTo_Translate(t) /\ UNCHANGED extVars
        \/ MoveTo_Descend(t) /\ UNCHANGED extVars
        \/ OpenLid(t) /\ UNCHANGED extVars
        \/ OpenLid_TcOpen(t) /\ UNCHANGED extVars
        \/ OpenLid_SetFlag(t) /\ UNCHANGED extVars
        \/ CloseLid(t) /\ UNCHANGED extVars
        \/ CloseLid_TcClose(t) /\ UNCHANGED extVars
        \/ CloseLid_SetFlag(t) /\ UNCHANGED extVars
        \/ OpenCloseLid(t) /\ UNCHANGED extVars
        \/ OpenCloseLid_Branch(t) /\ UNCHANGED extVars
        \/ OpenCloseLid_SetFlag(t) /\ UNCHANGED extVars
        \/ TcReturns(t) /\ UNCHANGED extVars
        \/ TcRaises(t) /\ UNCHANGED extVars

SpecToggle == Init /\ [][ToggleNext]_vars

\* ------------------------------------------------------- aspirate_from
MaxAspirateOps == 2

\* int(volume) on a volume that is not negative
int(volume) == (volume \div Thousandth) * Thousandth

\* The volumes (50 nL, 1000.9 nL), positions and rates a protocol passes.
AspirateVolumes == {50 * Thousandth, 1000 * Thousandth + 900}
AspiratePositions == {<<1, 1, 10>>, <<2, 0, 5>>}
AspirateRates == {50 * Thousandth}

\* drop_off_liquid: speed = self.flowrate_to_speed_converter(rate)
DropOffLiquid_Speed(t) ==
    /\ AtPc(t, "drop_off_liquid", "start")
    /\ CallFrom(t, "distance", Frame("flowrate_to_speed_converter", Top(t).arg.rate))
    /\ UNCHANGED <<opsLeft, cur, trace, tc_lid_flag, joyVars, extVars>>

\* drop_off_liquid: step_displacement = self.volume_to_distance_converter(volume)
DropOffLiquid_Distance(t) ==
    /\ AtPc(t, "drop_off_liquid", "distance")
    /\ CallFrom(t, "plunger", Frame("volume_to_distance_converter", Top(t).arg.volume))
    /\ UNCHANGED <<opsLeft, cur, trace, tc_lid_flag, joyVars, extVars>>

\* drop_off_liquid: self.ot_control.plunger_L_Down(step_displacement, speed, ...)
DropOffLiquid_Plunger(t) ==
    /\ AtPc(t, "drop_off_liquid", "plunger")
    /\ LET n == Len(trace[t])
       IN  Log(t, Ev("motor", "plunger_L_Down", {"B"},
                     <<trace[t][n].arg[1], trace[t][n - 2].arg[1]>>))
    /\ Ret(t)
    /\ UNCHANGED <<opsLeft, cur, tc_lid_flag, joyVars, extVars>>

\* Fault variant of aspirate: the volume is passed on as it came.
Aspirate_Untruncated(t) ==
    /\ AtPc(t, "aspirate", "start")
    /\ CallFrom(t, "ret", Frame("pick_up_liquid", Top(t).arg))
    /\ UNCHANGED <<opsLeft, cur, trace, tc_lid_flag, joyVars, extVars>>

\* aspirate(volume, rate): self.pick_up_liquid(int(volume), rate)
Aspirate(t) ==
    /\ AtPc(t, "aspirate", "start")
    /\ CallFrom(t, "ret", Frame("pick_up_liquid",
                                [volume |-> int(Top(t).arg.volume), rate |-> Top(t).arg.rate]))
    /\ UNCHANGED <<opsLeft, cur, trace, tc_lid_flag, joyVars, extVars>>

\* aspirate_from: self.go_to_position(position)
AspirateFrom_Go(t) ==
    GoCall(t, "aspirate_from", "start", "backlash_up", Top(t).arg.position)

\* aspirate_from: self.pick_up_liquid(int(100), rate)
AspirateFrom_BacklashUp(t) ==
    /\ AtPc(t, "aspirate_from", "backlash_up")
    /\ CallFrom(t, "aspirate", Frame("pick_up_liquid",
                                     [volume |-> 100 * Thousandth, rate |-> Top(t).arg.rate]))
    /\ UNCHANGED <<opsLeft, cur, trace, tc_lid_flag, joyVars, extVars>>

\* aspirate_from: self.aspirate(volume, rate)
AspirateFrom_Aspirate(t) ==
    /\ AtPc(t, "aspirate_from", "aspirate")
    /\ CallFrom(t, "backlash_down", Frame("aspirate",
                                          [volume |-> Top(t).arg.volume, rate |-> Top(t).arg.rate]))
    /\ UNCHANGED <<opsLeft, cur, trace, tc_lid_flag, joyVars, extVars>>

\* aspirate_from: self.drop_off_liquid(int(100), rate), then the settling
\* sleep.
AspirateFrom_BacklashDown(t) ==
    /\ AtPc(t, "aspirate_from", "backlash_down")
    /\ CallFrom(t, "ret", Frame("drop_off_liquid",
                                [volume |-> 100 * Thousandth, rate |-> Top(t).arg.rate]))
    /\ UNCHANGED <<opsLeft, cur, trace, tc_lid_flag, joyVars, extVars>>

\* A protocol step aspirates from a position.
InvokeAspirate(t) ==
    /\ Invoked < MaxAspirateOps
    /\ \E v \in AspirateVolumes, p \in AspiratePositions, r \in AspirateRates :
          Invoke(t, "aspirate_from", [volume |-> v, position |-> p, rate |-> r])
    /\ UNCHANGED <<tc_lid_flag, joyVars, extVars>>

AspirateNext ==
    \E t \in Threads :
        \/ InvokeAspirate(t)
        \/ AspirateFrom_Go(t)
        \/ AspirateFrom_BacklashUp(t)
        \/ AspirateFrom_Aspirate(t)
        \/ AspirateFrom_BacklashDown(t)
        \/ Aspirate(t)
        \/ PickUpLiquid_Speed(t)
        \/ PickUpLiquid_Distance(t)
        \/ PickUpLiquid_Plunger(t)
        \/ DropOffLiquid_Speed(t)
        \/ DropOffLiquid_Distance(t)
        \/ DropOffLiquid_Plunger(t)
        \/ VolumeToDistanceConverter(t)
        \/ FlowrateToSpeedConverter(t)
        \/ GoToPosition(t) /\ UNCHANGED extVars
        \/ MoveTo_Lift(t) /\ UNCHANGED extVars
        \/ MoveTo_Translate(t) /\ UNCHANGED extVars
        \/ MoveTo_Descend(t) /\ UNCHANGED extVars

SpecAspirate == Init /\ [][AspirateNext]_vars

\* ------------------------------------------------ calibration handlers
MaxWebOps == 2

NUMBER_OF_CALIBRATION_POINTS == 3

FOURTH_CALIBRATION_POINT_POSITION == 3

\* Where the user may have jogged the gantry when a session ends.
JoggedPositions == {[X |-> 1, Y |-> 1, Z |-> 0], [X |-> 3, Y |-> 2, Z |-> 1]}

\* What the page sends to modify_calibration: three points and the index
\* of the one to capture again.
ModifyRequests == {<<<<1, 1, 0>>, <<3, 1, 0>>, <<3, 2, 1>>, i>> : i \in 0 .. 2}

Emit(name, data) == Ev("socket", name, {}, data)

\* Every statement of a handler but the last leaves the flags of manual
\* control, the gantry and the calibration flag as they are.
WebStep == UNCHANGED <<opsLeft, cur, tc_lid_flag, joyVars, extVars>>

\* coordinator.manual_control(): the stop flag is cleared and the session
\* starts; the call blocks until the session is over.
ManualControl(t) ==
    /\ AtPc(t, "manual_control", "start")
    /\ stop_joystick' = FALSE
    /\ Goto(t, "session")
    /\ UNCHANGED <<opsLeft, cur, trace, tc_lid_flag, pygame_running, listener, joy,
                   round, stopReq, extVars>>

\* The user has jogged the gantry to p and presses START: the position is
\* confirmed and the session is told to end.
ManualControl_UserConfirms(t) ==
    /\ AtPc(t, "manual_control", "session")
    /\ ~stop_joystick
    /\ \E p \in JoggedPositions :
          /\ position' = p
          /\ Log(t, Ev("user", "confirmed", {}, <<p.X, p.Y, p.Z>>))
    /\ stop_joystick' = TRUE
    /\ UNCHANGED <<stack, opsLeft, cur, tc_lid_flag, pygame_running, listener, joy,
                   round, stopReq, pairVars, connVars, coordVars, labVars, webVars,
                   clean_water, wash_water, waste_water, amount_wanted>>

\* The session sees the stop flag and manual_control returns.
ManualControl_Returns(t) ==
    /\ AtPc(t, "manual_control", "session")
    /\ stop_joystick
    /\ Ret(t)
    /\ UNCHANGED trace
    /\ WebStep

\* start_calibration: the flag is lowered, the component is announced,
\* calibration_points = []
StartCalibration(t) ==
    /\ AtPc(t, "start_calibration", "start")
    /\ done_calibration_flag' = FALSE
    /\ Log(t, Emit("component_being_calibrated", <<>>))
    /\ stack' = [stack EXCEPT ![t] = WithArg(WithPc(@, "while"), <<>>)]
    /\ UNCHANGED <<opsLeft, cur, tc_lid_flag, joyVars, pairVars, washVars, connVars,
                   coordVars, labVars>>

\* start_calibration: while not read_done_calibration_flag():
\*                        coordinator.manual_control()
StartCalibration_While(t) ==
    /\ AtPc(t, "start_calibration", "while")
    /\ IF ~done_calibration_flag
       THEN CallFrom(t, "read", Frame("manual_control", <<>>))
       ELSE Goto(t, "after")
    /\ UNCHANGED trace
    /\ WebStep

\* start_calibration: position = coordinator.get_current_coordinates()
StartCalibration_Read(t) ==
    /\ AtPc(t, "start_calibration", "read")
    /\ CallFrom(t, "append", Frame("get_current_coordinates", <<>>))
    /\ UNCHANGED trace
    /\ WebStep

\* start_calibration: the position is appended and sent back; with the
\* third point the flag is raised.
StartCalibration_Append(t) ==
    /\ AtPc(t, "start_calibration", "append")
    /\ LET point == trace[t][Len(trace[t])].arg
           calibration_points == Append(Top(t).arg, point)
       IN  /\ stack' = [stack EXCEPT ![t] = WithArg(WithPc(@, "while"), calibration_points)]
           /\ Log(t, Emit("feedback_calibration_point", point))
           /\ done_calibration_flag' =
                 IF Len(calibration_points) = NUMBER_OF_CALIBRATION_POINTS
                 THEN TRUE
                 ELSE done_calibration_flag
    /\ UNCHANGED <<opsLeft, cur, tc_lid_flag, joyVars, pairVars, washVars, connVars,
                   coordVars, labVars>>

\* start_calibration, after the loop: the points are sent when there are
\* three of them.
StartCalibration_After(t) ==
    /\ AtPc(t, "start_calibration", "after")
    /\ IF Len(Top(t).arg) = NUMBER_OF_CALIBRATION_POINTS
       THEN Log(t, Emit("stored_calibration_points", Top(t).arg))
       ELSE UNCHANGED trace
    /\ Ret(t)
    /\ WebStep

\* stop_calibration: activate_done_calibration_flag()
StopCalibration(t) ==
    /\ AtPc(t, "stop_calibration", "start")
    /\ done_calibration_flag' = TRUE
    /\ Goto(t, "stop_manual_control")
    /\ UNCHANGED <<opsLeft, cur, trace, tc_lid_flag, joyVars, pairVars, washVars,
                   connVars, coordVars, labVars>>

\* stop_calibration: coordinator.stop_manual_control()
StopCalibration_StopManualControl(t) ==
    /\ AtPc(t, "stop_calibration", "stop_manual_control")
    /\ stop_joystick' = TRUE
    /\ Log(t, Ev("coord", "stop_manual_control", {}, <<>>))
    /\ Ret(t)
    /\ UNCHANGED <<opsLeft, cur, tc_lid_flag, pygame_running, listener, joy, round,
                   stopReq, extVars>>

\* modify_calibration: index = calibration_points[3];
\* new_list = calibration_points[:(NUMBER_OF_CALIBRATION_POINTS - 1)];
\* coordinator.manual_control()
ModifyCalibration(t) ==
    /\ AtPc(t, "modify_calibration", "start")
    /\ LET calibration_points == Top(t).arg
           index == calibration_points[FOURTH_CALIBRATION_POINT_POSITION + 1]
           new_list == SubSeq(calibration_points, 1, NUMBER_OF_CALIBRATION_POINTS - 1)
       IN  stack' = [stack EXCEPT ![t] =
                        Append(WithArg(WithPc(@, "read"), [index |-> index, new_list |-> new_list]),
                               Frame("manual_control", <<>>))]
    /\ UNCHANGED trace
    /\ WebStep

\* modify_calibration: new_position = coordinator.get_current_coordinates()
ModifyCalibration_Read(t) ==
    /\ AtPc(t, "modify_calibration", "read")
    /\ CallFrom(t, "assign", Frame("get_current_coordinates", <<>>))
    /\ UNCHANGED trace
    /\ WebStep

\* modify_calibration: new_list[index] = new_position (IndexError when the
\* list has no such index), then the list is sent.
ModifyCalibration_Assign(t) ==
    /\ AtPc(t, "modify_calibration", "assign")
    /\ LET new_position == trace[t][Len(trace[t])].arg
           index == Top(t).arg.index
           new_list == Top(t).arg.new_list
       IN  IF index < Len(new_list)
           THEN /\ Log(t, Emit("calibration_points",
                               [new_list EXCEPT ![index + 1] = new_position]))
                /\ Ret(t)
           ELSE /\ Log(t, Ev("web", "raise", {}, <<"IndexError">>))
                /\ Raise(t)
    /\ WebStep

\* The calibration page starts a calibration or asks for one point to be
\* captured again, one capture at a time; it may stop the calibration at
\* any moment.
InvokeWeb(t) ==
    /\ Invoked < MaxWebOps
    /\ \/ /\ \A u \in Threads : stack[u] = <<>>
          /\ \/ Invoke(t, "start_calibration", <<>>)
             \/ \E r \in ModifyRequests : Invoke(t, "modify_calibration", r)
       \/ Invoke(t, "stop_calibration", <<>>)
    /\ UNCHANGED <<tc_lid_flag, joyVars, extVars>>

WebNext ==
    \E t \in Threads :
        \/ InvokeWeb(t)
        \/ ManualControl(t)
        \/ ManualControl_UserConfirms(t)
        \/ ManualControl_Returns(t)
        \/ StartCalibration(t)
        \/ StartCalibration_While(t)
        \/ StartCalibration_Read(t)
        \/ StartCalibration_Append(t)
        \/ StartCalibration_After(t)
        \/ StopCalibration(t)
        \/ StopCalibration_StopManualControl(t)
        \/ ModifyCalibration(t)
        \/ ModifyCalibration_Read(t)
        \/ ModifyCalibration_Assign(t)
        \/ GetCoordinates_ReadX(t)
        \/ GetCoordinates_ReadY(t)
        \/ GetCoordinates_ReadZ(t)

SpecWeb == Init /\ [][WebNext]_vars

\* ------------------------------------------------------ end of protocol
MaxEndOps == 2

\* Fault variant of end_of_protocol: the devices are disconnected without
\* the gantry having been sent to slot 3.
EndOfProtocol_NoPark(t) ==
    /\ AtPc(t, "end_of_protocol", "start")
    /\ CallFrom(t, "ret", Frame("disconnect_all", <<>>))
    /\ UNCHANGED <<opsLeft, cur, trace, tc_lid_flag, joyVars, extVars>>

\* end_of_protocol: self.go_to_deck_slot('3')
EndOfProtocol(t) ==
    /\ AtPc(t, "end_of_protocol", "start")
    /\ CallFrom(t, "disconnect", Frame("go_to_deck_slot", "3"))
    /\ UNCHANGED <<opsLeft, cur, trace, tc_lid_flag, joyVars, extVars>>

\* end_of_protocol: self.disconnect_all()
EndOfProtocol_Disconnect(t) ==
    /\ AtPc(t, "end_of_protocol", "disconnect")
    /\ CallFrom(t, "ret", Frame("disconnect_all", <<>>))
    /\ UNCHANGED <<opsLeft, cur, trace, tc_lid_flag, joyVars, extVars>>

\* A protocol script reaches its last line.
InvokeEnd(t) ==
    /\ Invoked < MaxEndOps
    /\ Invoke(t, "end_of_protocol", <<>>)
    /\ UNCHANGED <<tc_lid_flag, joyVars, extVars>>

EndNext ==
    \E t \in Threads :
        \/ InvokeEnd(t)
        \/ EndOfProtocol(t)
        \/ EndOfProtocol_Disconnect(t)
        \/ DisconnectAll_Tc(t)
        \/ DisconnectAll_Ot(t)
        \/ DisconnectAll_Td(t)
        \/ GoToDeckSlot(t) /\ UNCHANGED extVars
        \/ GoToPosition(t) /\ UNCHANGED extVars
        \/ MoveTo_Lift(t) /\ UNCHANGED extVars
        \/ MoveTo_Translate(t) /\ UNCHANGED extVars
        \/ MoveTo_Descend(t) /\ UNCHANGED extVars

SpecEnd == Init /\ [][EndNext]_vars

\* ================================================================ claims
Last(s) == s[Len(s)]

Range(s) == {s[i] : i \in 1 .. Len(s)}

IsPrefix(s, full) == Len(s) <= Len(full) /\ s = SubSeq(full, 1, Len(s))

\* Flow t took the step.
Stepped(t) == stack'[t] # stack[t]

TcIssued(cmd) == Ev("tc", cmd, {}, <<"issued">>)

TcDone(cmd) == Ev("tc", cmd, {}, <<"done">>)

TcFailed(cmd) == Ev("tc", cmd, {}, <<"failed">>)

GatedSlot(slot) == float(slot) \in {7, 8, 10, 11}

\* What one go_to_position(loc) issues.
MoveEvents(loc) ==
    <<Ev("coord", "go_to_position", {}, loc),
      Ev("motor", "lift", {"Z"}, loc),
      Ev("motor", "translate", {"X", "Y"}, loc),
      Ev("motor", "descend", {"Z"}, loc)>>

\* Flow t is running go_to_deck_slot, called by a handler, for a slot next
\* to the thermal cycler.
RunsGated(t) ==
    /\ stack[t] # <<>>
    /\ cur[t].op = "go_to_deck_slot"
    /\ GatedSlot(cur[t].arg)

\* Flow t issues something toward loc in this step.
IssuesToward(t, loc) ==
    /\ Len(trace'[t]) > Len(trace[t])
    /\ Last(trace'[t]).dev \in {"coord", "motor"}
    /\ Last(trace'[t]).arg = loc

\* Flow t calls go_to_position(loc) in this step.
CallsGoToPosition(t, loc) ==
    /\ Len(stack'[t]) > Len(stack[t])
    /\ Last(stack'[t]).proc = "go_to_position"
    /\ Last(stack'[t]).arg = loc

C1_Step(t) ==
    (RunsGated(t) /\ Stepped(t)) =>
        LET loc == SlotLocation(cur[t].arg)
        IN  /\ IssuesToward(t, loc) => TcDone("open") \in Range(trace[t])
            /\ CallsGoToPosition(t, loc) =>
                  /\ AtPc(t, "go_to_deck_slot", "check")
                  /\ tc_lid_flag = "open"
                  /\ TcDone("open") \in Range(trace[t])
            /\ (AtPc(t, "go_to_deck_slot", "check") /\ tc_lid_flag # "open") =>
                  /\ stack'[t] = <<>>
                  /\ trace'[t] = trace[t]

\* C1: go_to_deck_slot for slot 7, 8, 10 or 11 issues nothing toward the
\* slot's centre before the thermal cycler's open() call (made by open_lid)
\* has completed; it calls go_to_position for the slot only from the test
\* that follows open_lid, and only when that test reads the lid flag as
\* 'open'; when the test reads anything else the operation ends without the
\* move.
C1_LidOpenBeforeGatedMove == [][\A t \in Threads : C1_Step(t)]_vars

\* C1 witness: one flow has completed a gated move after the lid opened,
\* another has had its gated move withheld.
C1_Witness ==
    \E t, u \in Threads :
        /\ cur[t].op = "go_to_deck_slot" /\ GatedSlot(cur[t].arg)
        /\ stack[t] = <<>>
        /\ TcDone("open") \in Range(trace[t])
        /\ Last(trace[t]) = Ev("motor", "descend", {"Z"}, SlotLocation(cur[t].arg))
        /\ cur[u].op = "go_to_deck_slot" /\ GatedSlot(cur[u].arg)
        /\ stack[u] = <<>>
        /\ Last(trace[u]) = TcDone("open")

\* Flow t runs (or has run) go_to_deck_slot, called by a handler, for a slot
\* that is not next to the thermal cycler.
NonGatedCall(t) ==
    /\ cur[t].op = "go_to_deck_slot"
    /\ ~GatedSlot(cur[t].arg)

C2_State(t) ==
    NonGatedCall(t) =>
        /\ IsPrefix(trace[t], MoveEvents(SlotLocation(cur[t].arg)))
        /\ stack[t] = <<>> => trace[t] = MoveEvents(SlotLocation(cur[t].arg))

\* C2: go_to_deck_slot for a slot other than 7, 8, 10 and 11 issues exactly
\* one go_to_position, to (centre x, centre y, 150), and nothing else (no
\* thermal-cycler command), and none of its steps changes the lid flag.
C2_NonGatedSlotMovesOnce ==
    [][\A t \in Threads :
          /\ C2_State(t)'
          /\ (NonGatedCall(t) /\ stack[t] # <<>> /\ Stepped(t)) =>
                tc_lid_flag' = tc_lid_flag]_vars

\* C2 witness: a completed go_to_deck_slot('3') while the lid flag reads
\* 'closed'.
C2_Witness ==
    \E t \in Threads :
        /\ cur[t] = [op |-> "go_to_deck_slot", arg |-> "3"]
        /\ stack[t] = <<>>
        /\ trace[t] = MoveEvents(SlotLocation("3"))
        /\ tc_lid_flag = "closed"

\* The go_to_position calls and motor directives of a trace.
Motion(tr) == SelectSeq(tr, LAMBDA e : e.dev \in {"coord", "motor"})

\* Flow t is inside go_to_position.
InGoToPosition(t) ==
    \E i \in 1 .. Len(stack[t]) : stack[t][i].proc \in {"go_to_position", "move_to"}

C4_LidFlagFollowsLidCommand ==
    [][tc_lid_flag' # tc_lid_flag =>
          \E t \in Threads :
              /\ Stepped(t)
              /\ trace[t] # <<>>
              /\ trace'[t] = trace[t]
              /\ tc_lid_flag' \in {"open", "closed"}
              /\ Last(trace[t]) =
                    TcDone(IF tc_lid_flag' = "open" THEN "open" ELSE "close")]_vars

\* C4 witness: the flag reads 'closed' and the flow that closed the lid has
\* returned from open_close_lid.
C4_Witness ==
    \E t \in Threads :
        /\ cur[t].op = "open_close_lid"
        /\ stack[t] = <<>>
        /\ Last(trace[t]) = TcDone("close")
        /\ tc_lid_flag = "closed"

ManualDispatchInFlight(t) ==
    \E i \in 1 .. Len(stack[t]) : stack[t][i].proc = "ot_method"

\* Flow t has a move_to call of an API operation in flight.
ApiDriverCallInFlight(t) ==
    \E i \in 1 .. Len(stack[t]) : stack[t][i].proc = "move_to"

\* C6: at no reachable state are a driver call of a manual-control dispatch
\* and a motor-driver call of an API operation (go_to_position) in flight
\* together.
C6_NoConcurrentDriverCalls ==
    \A t, u \in Threads :
        ~(t # u /\ ManualDispatchInFlight(t) /\ ApiDriverCallInFlight(u))

\* The driver methods bound to the inputs a round dispatches, in order.
BoundOps(inputs) ==
    [i \in 1 .. Len(inputs) |->
        IF inputs[i] \in DOMAIN controller_profile
        THEN controller_profile[inputs[i]]
        ELSE "unbound"]

\* When flow t is at the termination test of the manual-control loop, the
\* round it last ran has invoked, to completion and in order, the method
\* bound to every button and axis input of its snapshot.
C7_State(t) ==
    AtPc(t, "joystick_control", "loop")
        => round[t].done = BoundOps(round[t].buttons \o round[t].axes)

\* Flow t leaves the while loop of joystick_control in this step.
LeavesLoop(t) ==
    /\ SessionActive(t)
    /\ ~SessionActive(t)'
    /\ stack'[t] # <<>>

C8_StopEndsSession ==
    \A t \in Threads : stopReq[t] ~> ~SessionActive(t)

\* ---- temperature
AtProc(t, proc) == stack[t] # <<>> /\ Top(t).proc = proc

\* One step of set_block_temp in flow t, seen from the state before it.
C9_Step(t) ==
    AtProc(t, "set_block_temp") =>
        LET f == Top(t)
            inBand == InBand(f.arg.current_temp, f.arg.target)
        IN  /\ (f.pc = "ramp" /\ ~inBand) => AtPc(t, "set_block_temp", "ramp")'
            /\ (f.pc = "ramp" /\ inBand /\ stack'[t] # stack[t])
                   => AtPc(t, "set_block_temp", "hold")'
            /\ (f.pc # "hold" /\ AtPc(t, "set_block_temp", "hold")')
                   => f.pc = "ramp" /\ inBand
            /\ stack'[t] = <<>>
                   => f.pc = "hold" /\ ~(f.arg.min_count < f.arg.hold)

\* C9: set_block_temp stays in its ramp loop while the polled temperature is
\* outside [target-1, target+1], enters the hold loop only from the ramp loop
\* and only on a reading inside that closed interval, and returns only from
\* the hold loop once min_count has reached the hold time.
C9_TwoPhaseWait ==
    [][\A t \in Threads :
          /\ C9_Step(t)
          /\ AtPc(t, "set_block_temp", "hold")'
                 => InBand(Top(t).arg.current_temp, Top(t).arg.target)']_vars

\* C9 witness: a hold that started on the reading target+1 has completed.
C9_Witness ==
    \E t \in Threads :
        /\ AtPc(t, "set_block_temp", "hold")
        /\ Top(t).arg.current_temp = Top(t).arg.target + ALLOWANCE
        /\ Top(t).arg.hold > 0
        /\ ~(Top(t).arg.min_count < Top(t).arg.hold)

\* The smallest n >= 0 with n * 0.5 min >= hold.
MinWaits(hold) ==
    CHOOSE n \in 0 .. MaxHold + 1 :
        /\ n * HOLD_STEP >= hold
        /\ \A m \in 0 .. n - 1 : m * HOLD_STEP < hold

\* Flow t returns from set_block_temp or set_tempdeck_temp in this step.
TempReturns(t) ==
    /\ stack[t] # <<>>
    /\ Top(t).proc \in TempProcs
    /\ stack'[t] = <<>>

\* In the hold loop min_count is the number of 30 s waits times 0.5 min.
HoldAccumulates(t) ==
    (stack[t] # <<>> /\ Top(t).proc \in TempProcs /\ Top(t).pc = "hold")
        => Top(t).arg.min_count = Top(t).arg.waits * HOLD_STEP

\* C10 as stated: the hold loop makes MinWaits(hold) waits, and the held
\* time is at least the hold time and exceeds it by less than 0.5 min, for
\* every hold time including those <= 0.
C10_HeldTimeWithinHalfMinute ==
    [][\A t \in Threads :
          /\ HoldAccumulates(t)'
          /\ TempReturns(t) =>
                LET hold == Top(t).arg.hold
                    held == Top(t).arg.waits * HOLD_STEP
                IN  /\ Top(t).arg.waits = MinWaits(hold)
                    /\ held >= hold
                    /\ held - hold < HOLD_STEP]_vars

\* C10 amended: the hold loop makes MinWaits(hold) waits of 30 s, each
\* adding 0.5 min; the held time is at least the hold time; it exceeds a
\* positive hold time by less than 0.5 min, and it is zero for a hold time
\* <= 0.
C10_HoldWaits ==
    [][\A t \in Threads :
          /\ HoldAccumulates(t)'
          /\ TempReturns(t) =>
                LET hold == Top(t).arg.hold
                    held == Top(t).arg.waits * HOLD_STEP
                IN  /\ Top(t).arg.waits = MinWaits(hold)
                    /\ held >= hold
                    /\ hold > 0 => held - hold < HOLD_STEP
                    /\ hold <= 0 => held = 0]_vars

\* C10 witness: a hold of 0.75 min is about to end after two waits.
C10_Witness ==
    \E t \in Threads :
        /\ stack[t] # <<>>
        /\ Top(t).proc \in TempProcs
        /\ Top(t).pc = "hold"
        /\ Top(t).arg.hold = 3
        /\ Top(t).arg.waits = 2
        /\ Top(t).arg.min_count = 4

\* Flow t is inside set_block_temp or set_tempdeck_temp.
InTempCall(t) == stack[t] # <<>> /\ Top(t).proc \in TempProcs

\* Flow t is in the ramp loop and its latest reading is outside the band.
RampOutOfBand(t) ==
    /\ InTempCall(t)
    /\ Top(t).pc = "ramp"
    /\ ~InBand(Top(t).arg.current_temp, Top(t).arg.target)

\* Flow t has polled a temperature inside the band.
PolledInBand(t) ==
    /\ InTempCall(t)
    /\ Top(t).pc \in {"ramp", "hold"}
    /\ InBand(Top(t).arg.current_temp, Top(t).arg.target)

\* C11: in both temperature calls a reading outside [target-1, target+1]
\* is followed only by another poll of the ramp loop, however many polls
\* there have been (no bound, no exit to the hold phase, no return); and
\* once a poll has read inside the band the call returns.
C11_RampUnboundedHoldTerminates ==
    /\ [][\A t \in Threads :
             RampOutOfBand(t) => (InTempCall(t) /\ Top(t).pc = "ramp")']_vars
    /\ \A t \in Threads : PolledInBand(t) ~> (stack[t] = <<>>)

\* C11 witness: a call with a positive hold time has returned.
C11_Witness ==
    \E t \in Threads :
        /\ stack[t] = <<>>
        /\ cur[t].op \in TempProcs
        /\ cur[t].arg.hold > 0

\* ---- stop signals
\* Flow u has raised a stop signal: its stop call has returned.
StopRaised(u) == stack[u] = <<>> /\ cur[u].op \in StopOps

\* C12: once another flow has raised a stop signal while a temperature call
\* is in its ramp or hold loop, the call does not poll or wait any further:
\* its next step is its return.
C12_StopCancelsWait ==
    [][\A t, u \in Threads :
          (StopRaised(u) /\ Waiting(t))
              => (stack'[t] = stack[t] \/ stack'[t] = <<>>)]_vars

\* ---- the two waits side by side
\* The devices the events of flow t address.
DevicesOf(t) == {trace[t][i].dev : i \in 1 .. Len(trace[t])}

\* Flow t has returned from its temperature call.
PairDone(t) == phases[t] # <<>> /\ Last(phases[t]).ph = "done"

GoEvents(loc) ==
    <<Ev("coord", "go_to_position", {}, loc),
      Ev("motor", "lift", {"Z"}, loc),
      Ev("motor", "translate", {"X", "Y"}, loc),
      Ev("motor", "descend", {"Z"}, loc)>>

PlungerEvents(b, rate) ==
    <<Ev("coord", "move_plunger", {}, <<b, rate>>), Ev("motor", "move", {"B"}, <<b, rate>>)>>

AspirateEvents(volume, rate) ==
    <<Ev("coord", "aspirate", {}, <<volume, rate>>),
      Ev("motor", "plunger_L_Up", {"B"}, <<volume, rate>>)>>

DispenseEvents(volume, rate) ==
    <<Ev("coord", "dispense", {}, <<volume, rate>>),
      Ev("motor", "plunger_L_Down", {"B"}, <<volume, rate>>)>>

\* The air gap made at position at: a move that raises Z by 25 and keeps X
\* and Y, then an aspirate of 50 nL at the default rate.
AirGapEvents(at) ==
    GoEvents(<<at.X, at.Y, at.Z + 25>>) \o AspirateEvents(50, DEFAULT_RATE)

AsPosition(loc) == [X |-> loc[1], Y |-> loc[2], Z |-> loc[3]]

\* The washing positions were set when the call was made.
Configured(cfg) == cfg.clean # <<>> /\ cfg.wash # <<>> /\ cfg.waste # <<>>

\* Flow t is running, or has last run, op with the washing positions set.
RanConfigured(t, op) == cur[t].op = op /\ Configured(cur[t].arg.cfg)

\* What the operation of flow t has issued is what it had to issue so far,
\* and all of it once it has returned.
Issues(t, expected) ==
    /\ IsPrefix(trace[t], expected)
    /\ stack[t] = <<>> => trace[t] = expected

StartWashExpected(a) ==
    GoEvents(a.cfg.waste)
    \o PlungerEvents(syringe_parameters.lower_syringe_limit, a.rate)
    \o GoEvents(a.cfg.wash)
    \o PlungerEvents(syringe_parameters.upper_syringe_limit, a.rate)
    \o PlungerEvents(syringe_parameters.lower_syringe_limit, a.rate)
    \o GoEvents(a.cfg.clean)
    \o PlungerEvents(syringe_parameters.sweetspot_on_syringe, a.rate)
    \o AirGapEvents(AsPosition(a.cfg.clean))

\* C14: with the washing positions set, start_wash issues, in this order
\* and nothing else: move to waste, plunger to the lower limit, move to
\* wash, plunger to the upper limit, plunger to the lower limit, move to
\* clean, plunger to the sweet spot, and the air gap (a move raising Z by 25
\* above the clean position, then an aspirate of 50 nL).
C14_StartWashSequence ==
    \A t \in Threads :
        RanConfigured(t, "start_wash") => Issues(t, StartWashExpected(cur[t].arg))

\* C14 witness: a start_wash with the positions set has returned after its
\* 26 events.
C14_Witness ==
    \E t \in Threads :
        /\ RanConfigured(t, "start_wash")
        /\ stack[t] = <<>>
        /\ Len(trace[t]) = 26
        /\ position = [X |-> 20, Y |-> 0, Z |-> 25]

MidWashExpected(a) ==
    GoEvents(a.cfg.waste)
    \o DispenseEvents(a.left_over, a.rate)
    \o GoEvents(a.cfg.wash)
    \o AspirateEvents(a.cfg.amount + a.cushion_1, a.rate)
    \o DispenseEvents(a.cfg.amount + a.cushion_2, a.rate)
    \o GoEvents(a.cfg.clean)
    \o PlungerEvents(syringe_parameters.sweetspot_on_syringe, a.rate)
    \o AirGapEvents(AsPosition(a.cfg.clean))

\* amount_wanted changes only in set_amount_wanted, which stores the volume
\* it is given.
AmountSetOnlyBySetter ==
    /\ amount_wanted' # amount_wanted =>
          \E t \in Threads : AtPc(t, "set_amount_wanted", "start") /\ Stepped(t)
    /\ \A t \in Threads :
          (AtPc(t, "set_amount_wanted", "start") /\ Stepped(t))
              => amount_wanted' = Top(t).arg.volume

\* Every mid_wash called with the washing positions set has issued what it
\* had to, with the amount wanted as it stood at the call.
MidWashIssues ==
    \A t \in Threads :
        RanConfigured(t, "mid_wash") => Issues(t, MidWashExpected(cur[t].arg))

\* C15: with the washing positions set, mid_wash issues, in this order and
\* nothing else: move to waste, dispense left_over, move to wash, aspirate
\* amount_wanted + cushion_1, dispense amount_wanted + cushion_2, move to
\* clean, plunger to the sweet spot, and the air gap; amount_wanted being
\* the value set_amount_wanted last stored, 1000 if it never ran.
C15_MidWashSequence ==
    /\ amount_wanted = 1000
    /\ []MidWashIssues
    /\ [][AmountSetOnlyBySetter]_vars

\* C15 witness: a mid_wash run after set_amount_wanted(500) has returned.
C15_Witness ==
    \E t \in Threads :
        /\ RanConfigured(t, "mid_wash")
        /\ cur[t].arg.cfg.amount = 500
        /\ cur[t].arg.cushion_1 = 200
        /\ stack[t] = <<>>
        /\ Len(trace[t]) = 26

WashOps == {"start_wash", "mid_wash", "fill_syringe_with_water"}

\* C16: a wash operation called before the washing positions are set fails
\* with a ConfigurationError and has issued no move and no plunger command.
C16_UnsetPositionsFailCleanly ==
    \A t \in Threads :
        (cur[t].op \in WashOps /\ ~Configured(cur[t].arg.cfg))
            => /\ \A i \in 1 .. Len(trace[t]) :
                     /\ trace[t][i].dev # "motor"
                     /\ trace[t][i].cmd # "go_to_position"
               /\ stack[t] = <<>> =>
                     /\ trace[t] # <<>>
                     /\ Last(trace[t]).cmd = "raise"
                     /\ Last(trace[t]).arg = <<"ConfigurationError">>

\* C17: air_gap issues first a move to the position it is called at with Z
\* raised by 25 and X and Y kept, and after that move an aspirate of 50 nL
\* at the default rate; nothing else, and no plunger command before the
\* move.
C17_AirGapLiftThenAspirate ==
    \A t \in Threads :
        cur[t].op = "air_gap" => Issues(t, AirGapEvents(cur[t].arg.cfg.at))

\* C17 witness: an air gap made at (20, 0, 25), where a start_wash left the
\* gantry, has returned.
C17_Witness ==
    \E t \in Threads :
        /\ cur[t].op = "air_gap"
        /\ cur[t].arg.cfg.at = [X |-> 20, Y |-> 0, Z |-> 25]
        /\ stack[t] = <<>>
        /\ Len(trace[t]) = 6
        /\ position = [X |-> 20, Y |-> 0, Z |-> 50]

\* ---- connections
\* The devices on which the operation of flow t has completed cmd.
Completed(t, cmd) ==
    {d \in Devices : \E i \in 1 .. Len(trace[t]) : trace[t][i] = Ev(d, cmd, {}, <<"done">>)}

\* Event i of flow t is a connect call, completed or failed.
IsConnect(t, i) == trace[t][i].dev \in Devices /\ trace[t][i].cmd = "connect"

\* C18: in a connect_all, every connect call comes after the three
\* disconnect calls (thermal cycler, motor controller, tempdeck) have all
\* completed.
C18_DisconnectAllBeforeConnect ==
    \A t \in Threads :
        cur[t].op = "connect_all" =>
            \A i \in 1 .. Len(trace[t]) :
                IsConnect(t, i) =>
                    \A d \in Devices :
                        \E j \in 1 .. (i - 1) :
                            trace[t][j] = Ev(d, "disconnect", {}, <<"done">>)

\* C18 witness: a connect_all with both modules enabled has returned with
\* the three devices disconnected and then connected.
C18_Witness ==
    \E t \in Threads :
        /\ cur[t].op = "connect_all"
        /\ stack[t] = <<>>
        /\ Len(trace[t]) = 6
        /\ Completed(t, "connect") = Devices

\* The devices connect_all connects in the build of the call made by t.
Enabled(t) ==
    {"ot"} \cup (IF cur[t].arg.THERMOCYCLER_CONNECTED THEN {"tc"} ELSE {})
           \cup (IF cur[t].arg.TEMPDECK_CONNECTED THEN {"td"} ELSE {})

\* The connect_all of flow t has returned to its caller.
Returned(t) ==
    /\ cur[t].op = "connect_all"
    /\ stack[t] = <<>>
    /\ trace[t] # <<>>
    /\ Last(trace[t]).cmd # "raise"

\* C19: a connect_all that has returned, a failing driver call included,
\* has either disconnected all three devices and connected every enabled
\* one, or connected none and disconnected all or none of them.
C19_NeverPartial ==
    \A t \in Threads :
        Returned(t) =>
            \/ /\ Completed(t, "disconnect") = Devices
               /\ Completed(t, "connect") = Enabled(t)
            \/ /\ Completed(t, "connect") = {}
               /\ Completed(t, "disconnect") \in {{}, Devices}

\* ---- coordinates
\* C20: the triple get_current_coordinates returns is a position the gantry
\* held at one instant of the call, whatever motion runs beside it.
C20_AtomicSnapshot ==
    \A t \in Threads :
        (cur[t].op = "get_current_coordinates" /\ stack[t] = <<>>)
            => AsPosition(Last(trace[t]).arg) \in heldPositions

\* ---- dispatch of a manual-control round
\* How many times name occurs in the sequence s.
Occurrences(s, name) == Cardinality({i \in 1 .. Len(s) : s[i] = name})

\* C21: when a dispatch round of manual control is over, the method bound
\* to every active input of its snapshot, buttons, axes and hats alike, has
\* been invoked on the motor driver exactly once.
C21_EveryInputDispatchedOnce ==
    \A t \in Threads :
        (AtPc(t, "joystick_control", "loop") /\ round[t] # NoRound)
            => \A m \in DriverMethods :
                  Occurrences(round[t].done, m)
                      = Occurrences(BoundOps(round[t].buttons \o round[t].axes
                                             \o round[t].hats), m)

\* ---- settings
\* Flow t runs update_setting with a name the method does not know.
UpdatesUnknown(t) ==
    /\ AtPc(t, "update_setting", "start")
    /\ Top(t).arg.name \notin
          {"coordinate_refresh_rate", "syringe_model", "syringe_default_speed",
           "xyz_axis_step_size", "xyz_axis_step_speed", "xyz_axis_gearbox"}

\* C22: update_setting with a name that is not a setting name logs, returns
\* without an error and leaves every setting as it was.
C22_UnknownSettingIsNoOp ==
    [][\A t \in Threads :
          (UpdatesUnknown(t) /\ Stepped(t))
              => /\ settings' = settings
                 /\ stack'[t] = <<>>
                 /\ trace'[t] = <<Ev("coord", "logging.info", {}, <<Top(t).arg.name>>)>>]_vars

\* C22 witness: an update with an unknown name has returned after an
\* earlier update changed a setting, which is still in place.
C22_Witness ==
    \E t \in Threads :
        /\ cur[t].op = "update_setting"
        /\ cur[t].arg.name = "xyz_step_size"
        /\ stack[t] = <<>>
        /\ trace[t] # <<>>
        /\ settings # InitialSettings
        /\ settings = cur[t].arg.settings

\* ---- depth overrides
\* C23: set_plate_depth with a caller-specified depth above the nominal
\* depth of the labware returns the default depth: the nominal depth, or
\* the resting depth one millimetre above it.
C23_OverDepthReturnsDefault ==
    \A t \in Threads :
        LET a == cur[t].arg
        IN  (/\ cur[t].op = "set_plate_depth"
             /\ stack[t] = <<>>
             /\ a.depth.type \in {"int", "float"}
             /\ a.depth.value > plate_default_depth(a.model))
                => Last(trace[t]).arg \in {<<plate_default_depth(a.model)>>,
                                           <<plate_default_depth(a.model) - 1>>}

\* ---- converters
\* The conversions the pick_up_liquid of flow t has finished: which
\* converter, the syringe model it read, its argument, and how it ended.
Conversions(t) ==
    IF cur[t].op # "pick_up_liquid"
    THEN {}
    ELSE {[fn |-> IF k = 1 THEN "flowrate_to_speed_converter"
                          ELSE "volume_to_distance_converter",
           model |-> trace[t][k].arg[1],
           number |-> IF k = 1 THEN cur[t].arg.rate ELSE cur[t].arg.volume,
           end |-> trace[t][k + 1]] : k \in {j \in {1, 3} : Len(trace[t]) > j}}

AllConversions == UNION {Conversions(t) : t \in Threads}

\* C24: for the same syringe and the same numeric argument,
\* flowrate_to_speed_converter and volume_to_distance_converter end the
\* same way: they return exactly the same number.
C24_SpeedEqualsDistance ==
    \A c, d \in AllConversions :
        (c.model = d.model /\ c.number = d.number) => c.end = d.end

\* C24 witness: one pick_up_liquid has converted 1000 nL/s to a speed and
\* 1000 nL to a distance with the default syringe, both 1.272.
C24_Witness ==
    \E t \in Threads :
        /\ stack[t] = <<>>
        /\ {[fn |-> f, model |-> "default", number |-> 1000 * Thousandth,
             end |-> Ev("coord", "return", {}, <<1272>>)] :
               f \in {"flowrate_to_speed_converter", "volume_to_distance_converter"}}
              \subseteq Conversions(t)

\* A conversion made without a usable syringe: the model has no positive
\* inner diameter, or no model of that name is loaded.
Unusable(model) == model \notin SyringeModels \/ inner_diameter(model) <= 0

\* C25: a conversion made with a syringe of zero or negative inner
\* diameter, or with no syringe model loaded, fails with a ConversionError
\* and returns no number.
C25_BadSyringeFailsConversion ==
    \A c \in AllConversions :
        Unusable(c.model) =>
            /\ c.end.cmd = "raise"
            /\ c.end.arg = <<"ConversionError">>

\* ---- calibration
\* Component-wise difference of two points.
Minus(p, q) == [i \in 1 .. 3 |-> p[i] - q[i]]

\* Flow t has returned from guess_fourth_calibration_point on three points
\* that are not in line.
GuessedFourth(t) ==
    /\ cur[t].op = "guess_fourth_calibration_point"
    /\ stack[t] = <<>>
    /\ trace[t] # <<>>
    /\ ~Collinear(cur[t].arg)

AddsCollinear(t) ==
    /\ AtProc(t, "add_labware_component")
    /\ Collinear(Top(t).arg.calibration_points)

ParkingLocation == SlotLocation(PIPPETE_POSITION_WHEN_MOVING_TC_LID)

\* Flow t issues the thermal cycler command cmd in this step.
IssuesTc(t, cmd) ==
    /\ Len(trace'[t]) = Len(trace[t]) + 1
    /\ Last(trace'[t]) = TcIssued(cmd)

\* The last thing flow t did was the complete move to the parking slot.
JustParked(t) ==
    /\ Len(trace[t]) >= 4
    /\ SubSeq(trace[t], Len(trace[t]) - 3, Len(trace[t])) = MoveEvents(ParkingLocation)

GatedMoveInFlight(t) ==
    /\ RunsGated(t)
    /\ \E i \in 1 .. Len(stack[t]) :
          /\ stack[t][i].proc \in {"go_to_position", "move_to"}
          /\ stack[t][i].arg = SlotLocation(cur[t].arg)

\* C29: while the move of go_to_deck_slot toward slot 7, 8, 10 or 11 is
\* under way, the lid flag is 'open', whatever the other handlers do.
C29_LidOpenDuringGatedMove ==
    \A t \in Threads : GatedMoveInFlight(t) => tc_lid_flag = "open"

\* ---- recursion between go_to_deck_slot and open_lid
\* The frames of go_to_deck_slot on the stack of flow t, bottom first.
DeckSlotFrames(t) == SelectSeq(stack[t], LAMBDA f : f.proc = "go_to_deck_slot")

\* The events of flow t that satisfy Test.
Count(t, Test(_)) == Cardinality({i \in 1 .. Len(trace[t]) : Test(trace[t][i])})

IsGantryMove(e) == e.dev = "coord" /\ e.cmd = "go_to_position"

IsLidOpen(e) == e = TcIssued("open")

IsLidClose(e) == e.dev = "tc" /\ e.cmd = "close"

\* Flow t is running a go_to_deck_slot called by a handler.
RunsDeckSlot(t) == stack[t] # <<>> /\ cur[t].op = "go_to_deck_slot"

\* The call of flow t has at most one go_to_deck_slot nested in it, for the
\* parking slot, and has issued at most two gantry moves, at most one lid
\* open command and no lid close command.
C30_Bounded(t) ==
    cur[t].op = "go_to_deck_slot" =>
        /\ Len(DeckSlotFrames(t)) <= 2
        /\ Len(DeckSlotFrames(t)) = 2 =>
              /\ DeckSlotFrames(t)[2].arg = "5"
              /\ ~GatedSlot(DeckSlotFrames(t)[2].arg)
        /\ Count(t, IsGantryMove) <= 2
        /\ Count(t, IsLidOpen) <= 1
        /\ Count(t, IsLidClose) = 0

\* C30: from any lid flag and for any slot, a go_to_deck_slot call stays
\* within these bounds at every step and returns.
C30_DeckSlotRecursionTerminates ==
    /\ [][\A t \in Threads : C30_Bounded(t)']_vars
    /\ \A t \in Threads : RunsDeckSlot(t) ~> (stack[t] = <<>>)

\* C30 witness: with the lid flag 'closed', a go_to_deck_slot for slot 7
\* has returned after the move to the parking slot, one open() and the move
\* to slot 7.
C30_Witness ==
    \E t, u \in Threads :
        /\ cur[u].op = "close_lid"
        /\ cur[t].op = "go_to_deck_slot"
        /\ cur[t].arg = "7"
        /\ stack[t] = <<>>
        /\ trace[t] = MoveEvents(ParkingLocation)
                      \o <<TcIssued("open"), TcDone("open")>>
                      \o MoveEvents(SlotLocation("7"))

\* ---- open_close_lid as a toggle
\* The flag open_close_lid leaves when it starts from flag value f.
Toggled(f) == IF f = "open" THEN "closed" ELSE "open"

\* The command open_close_lid issues when it reads flag value f.
ToggleCommand(f) == IF f = "open" THEN "close" ELSE "open"

\* A step of open_close_lid in flow t: its test issues close() when the flag
\* reads 'open' and open() otherwise; its last step follows the completion
\* of that command and sets 'closed' from 'open', 'open' from anything else.
ToggleStep(t) ==
    /\ (AtPc(t, "open_close_lid", "branch") /\ Stepped(t)) =>
          trace'[t] = Append(trace[t], TcIssued(ToggleCommand(tc_lid_flag)))
    /\ (/\ stack[t] # <<>>
        /\ Top(t).proc = "open_close_lid"
        /\ Top(t).pc \in {"set_open", "set_closed"}
        /\ Stepped(t)) =>
          /\ Last(trace[t]) = TcDone(ToggleCommand(tc_lid_flag))
          /\ tc_lid_flag' = Toggled(tc_lid_flag)

\* Flow t has made two open_close_lid calls in a row and both completed.
ToggledTwice(t) ==
    /\ cur[t].op = "toggle_twice"
    /\ stack[t] = <<>>
    /\ \A c \in {"open", "close"} : TcFailed(c) \notin Range(trace[t])

LidCommandFailed(t) ==
    /\ trace[t] # <<>>
    /\ Last(trace[t]) \in {TcFailed("open"), TcFailed("close")}

\* C32: when open() or close() raises inside open_lid, close_lid or
\* open_close_lid, the step in which it raises leaves the lid flag as it
\* was, and the operation is abandoned there: it takes no further step, so
\* it never sets the flag for the command that did not complete.
C32_FailedLidCommandKeepsFlag ==
    [][\A t \in Threads :
          LidCommandFailed(t)' =>
              /\ stack'[t] = <<>>
              /\ Stepped(t) => tc_lid_flag' = tc_lid_flag]_vars

\* C32 witness: close() raised inside close_lid while the flag read 'open',
\* and the flag still reads 'open'.
C32_Witness ==
    \E t \in Threads :
        /\ cur[t].op = "close_lid"
        /\ LidCommandFailed(t)
        /\ stack[t] = <<>>
        /\ tc_lid_flag = "open"

\* ---- aspirate_from
\* What the converters return for the default syringe: the plunger
\* displacement of a volume, the plunger speed of a flow rate.
ConvertedWithDefault(number) ==
    Mul(Div(Mul(number, FROM_NANOLITERS), area(inner_diameter("default"))),
        UNIT_CONVERSION * Thousandth)

\* The go_to_position calls and motor commands flow t has issued.
IssuedCommands(t) ==
    SelectSeq(trace[t], LAMBDA e : e.dev = "motor" \/ IsGantryMove(e))

PlungerUp(volume, rate) ==
    Ev("motor", "plunger_L_Up", {"B"},
       <<ConvertedWithDefault(volume), ConvertedWithDefault(rate)>>)

PlungerDown(volume, rate) ==
    Ev("motor", "plunger_L_Down", {"B"},
       <<ConvertedWithDefault(volume), ConvertedWithDefault(rate)>>)

\* The move to the position, 100 nL up, the picked volume up, 100 nL down.
AspirateFromExpected(source, picked, rate) ==
    MoveEvents(source)
    \o <<PlungerUp(100 * Thousandth, rate),
         PlungerUp(picked, rate),
         PlungerDown(100 * Thousandth, rate)>>

\* The net upward displacement of the plunger commands in a sequence.
RECURSIVE NetDisplacement(_)
NetDisplacement(s) ==
    IF s = <<>>
    THEN 0
    ELSE NetDisplacement(SubSeq(s, 1, Len(s) - 1))
         + (CASE Last(s).cmd = "plunger_L_Up" -> Last(s).arg[1]
              [] Last(s).cmd = "plunger_L_Down" -> 0 - Last(s).arg[1]
              [] OTHER -> 0)

\* Flow t, running aspirate_from, has issued a prefix of the commands
\* expected when `picked` is the volume picked up, all of them once it has
\* returned, with a net plunger displacement that is the one of `picked`.
AspiratesAs(t, picked) ==
    LET a == cur[t].arg
        expected == AspirateFromExpected(a.position, picked, a.rate)
    IN  /\ IsPrefix(IssuedCommands(t), expected)
        /\ stack[t] = <<>> =>
              /\ IssuedCommands(t) = expected
              /\ NetDisplacement(IssuedCommands(t)) = ConvertedWithDefault(picked)

DepthReturned(t, r) ==
    /\ cur[t].op = "set_plate_depth"
    /\ stack[t] = <<>>
    /\ Last(trace[t]) = Ev("coord", "return", {}, r)

\* C34: set_plate_depth returns nominal - 1 for the keyword "Plate's
\* depth", the depth itself for an int below the nominal depth, and None
\* for anything else (an int equal to or above the nominal depth, a float,
\* another string); a returned depth is always below the nominal depth.
C34_DepthBelowNominal ==
    \A t \in Threads :
        (cur[t].op = "set_plate_depth" /\ stack[t] = <<>>) =>
            LET a == cur[t].arg
                nominal == plate_default_depth(a.model)
                r == Last(trace[t]).arg
            IN  /\ r # <<>> => r[1] < nominal
                /\ (a.depth.type = "str" /\ a.depth.text = PLATE_DEPTH) =>
                      r = <<nominal - 1>>
                /\ (a.depth.type = "int" /\ a.depth.value < nominal) =>
                      r = <<a.depth.value>>
                /\ (a.depth.type = "int" /\ a.depth.value >= nominal) => r = <<>>
                /\ a.depth.type = "float" => r = <<>>
                /\ (a.depth.type = "str" /\ a.depth.text # PLATE_DEPTH) => r = <<>>

\* C34 witness: the int 10 was refused for a plate 10 mm deep, and the
\* keyword gave 9 for the same plate.
C34_Witness ==
    \E t, u \in Threads :
        /\ DepthReturned(t, <<>>)
        /\ cur[t].arg = [model |-> "plate",
                         depth |-> [type |-> "int", text |-> "", value |-> 10]]
        /\ DepthReturned(u, <<9>>)
        /\ cur[u].arg.depth.text = PLATE_DEPTH

\* ---- listener threads
\* The listener threads that are alive.
AliveListeners == {l \in ListenerIds : IsAlive(l)}

\* C35: at any time at most one listener thread is alive, whatever the
\* interleaving of the joystick_control calls.
C35_AtMostOneListener == Cardinality(AliveListeners) <= 1

\* Flow t leaves joystick_control in this step; its listener thread is l.
LeavesJoystickControl(t, l) ==
    /\ stack[t] # <<>>
    /\ stack[t][1].proc = "joystick_control"
    /\ stack[t][1].pc \in {"loop", "stop"}
    /\ stack[t][1].arg = l
    /\ stack'[t] = <<>>

\* C36: when joystick_control is left, also by a dispatch of
\* monitor_joystick that fails (no profile entry, no such driver method),
\* the stop flag is True and the listener thread of the session is no
\* longer alive.
C36_FailedDispatchEndsSession ==
    [][\A t \in Threads : \A l \in ListenerIds :
          LeavesJoystickControl(t, l) =>
              /\ stop_joystick'
              /\ ~IsAlive(l)']_vars

\* ---- calibration handlers
IsConfirmation(e) == e.dev = "user" /\ e.cmd = "confirmed"

IsStoredPoints(e) == e.dev = "socket" /\ e.cmd = "stored_calibration_points"

\* C37: start_calibration emits 'stored_calibration_points' only when the
\* user has confirmed all three points; a stop_calibration that comes before
\* the third confirmation, also during the session for the third point,
\* leaves the event out.
C37_StoredOnlyAfterThreeConfirmations ==
    \A t \in Threads :
        (cur[t].op = "start_calibration" /\ Count(t, IsStoredPoints) > 0) =>
            Count(t, IsConfirmation) = NUMBER_OF_CALIBRATION_POINTS

\* The position modify_calibration of flow t read after its session.
PositionRead(t) ==
    LET reads == SelectSeq(trace[t], LAMBDA e : e.dev = "coord" /\ e.cmd = "return")
    IN  reads[Len(reads)].arg

\* C38: modify_calibration, given three points and an index i in 0 .. 2,
\* emits a list of three points: the given ones, with the position read
\* after the manual-control session at index i.
C38_ModifyReplacesOnePoint ==
    \A t \in Threads :
        (cur[t].op = "modify_calibration" /\ stack[t] = <<>>) =>
            LET given == SubSeq(cur[t].arg, 1, NUMBER_OF_CALIBRATION_POINTS)
                i == cur[t].arg[FOURTH_CALIBRATION_POINT_POSITION + 1]
            IN  Last(trace[t]) =
                    Emit("calibration_points", [given EXCEPT ![i + 1] = PositionRead(t)])

\* ---- end of protocol
IsDisconnect(e) == e.cmd = "disconnect"

\* The three disconnects of disconnect_all, all completed.
DisconnectsDone ==
    <<Ev("tc", "disconnect", {}, <<"done">>),
      Ev("ot", "disconnect", {}, <<"done">>),
      Ev("td", "disconnect", {}, <<"done">>)>>

\* The devices flow t has called disconnect on, in order.
DisconnectedDevices(t) ==
    LET d == SelectSeq(trace[t], IsDisconnect)
    IN  [i \in 1 .. Len(d) |-> d[i].dev]

\* C39: end_of_protocol first makes the move to slot 3, without any lid
\* command, and only then calls disconnect on the thermal cycler, the motor
\* controller and the tempdeck, in that order; after the first disconnect it
\* issues no motor command.
C39_ParkThenDisconnect ==
    \A t \in Threads :
        cur[t].op = "end_of_protocol" =>
            LET move == MoveEvents(SlotLocation("3"))
                n == Len(move)
            IN  /\ IsPrefix(SubSeq(trace[t], 1, IF Len(trace[t]) < n THEN Len(trace[t]) ELSE n),
                            move)
                /\ \A i \in 1 .. Len(trace[t]) :
                      /\ ~(trace[t][i].dev = "tc" /\ trace[t][i].cmd \in {"open", "close"})
                      /\ i > n => (trace[t][i].dev # "motor" /\ ~IsGantryMove(trace[t][i]))
                      /\ IsDisconnect(trace[t][i]) => i > n
                /\ IsPrefix(DisconnectedDevices(t), <<"tc", "ot", "td">>)
                /\ (stack[t] = <<>> /\ \A i \in 1 .. Len(trace[t]) :
                                          trace[t][i].arg # <<"failed">>) =>
                      trace[t] = move \o DisconnectsDone

\* A call of end_of_protocol has returned after the move to slot 3 and the
\* three disconnects.
C39_Witness ==
    \E t \in Threads :
        /\ cur[t].op = "end_of_protocol"
        /\ stack[t] = <<>>
        /\ trace[t] = MoveEvents(SlotLocation("3")) \o DisconnectsDone
        /\ \A d \in {"tc", "ot", "td"} : ~connected[d]

====
